---- MODULE Spec2Model ----
(***************************************************************************)
(* docker-simple-secrets: the encrypted secret store, the password gate,   *)
(* the deployment engine with its two targets, and the container-facing    *)
(* API, as a state machine over the files the program keeps.               *)
(*                                                                         *)
(* A name is a sequence of tokens, a token being "." or a word without a   *)
(* dot: <<"K">> is the file K and <<"K", ".", "md5">> the file K.md5, so   *)
(* that appending a suffix, testing for one and searching for a substring  *)
(* are the string operations of the code.  A directory of files is a       *)
(* function whose domain is the set of the paths that exist.               *)
(***************************************************************************)
EXTENDS Integers, Sequences, FiniteSets, TLC

VARIABLES
    token,            \* DATA_DIR/.password-validation.aes: {} or {blob}
    storeDirs,        \* service directories under SECRETS_STORE_PATH
    payload,          \* <<service, name>> -> blob       (<name>.aes)
    staterec,         \* <<service, name>> -> [mounted]  (<name>.state)
    localDirs,        \* service directories under CONTAINER_SECRETS_PATH
    localFiles,       \* <<service, file>> -> content, under CONTAINER_SECRETS_PATH
    sharedDirs,       \* service directories under DEPLOY_PATH
    sharedFiles,      \* <<service, file>> -> content, under DEPLOY_PATH
    wrapper,          \* DEPLOY_PATH/dss-entrypoint-wrapper.sh exists
    hasDeployedOnce,  \* container-watcher flag
    rnd,              \* number of crypto.randomBytes salts drawn so far
    containers,       \* the running containers the Docker daemon reports
    dockerNetworkCIDRs, \* subnets discovered at startup
    gate,             \* first-time setup requests in flight, and who wrote the token
    job,              \* the deploy request in flight, when its steps are followed
    runs,             \* overlapping deploy requests, when the steps of their tasks are followed
    watcher,          \* container-watcher: watcherRequest, the event streams, the timers
    tmp,              \* os.tmpdir(): the passphrase files and the calls that hold one
    rateLimitMap,     \* client address -> [attempts, lastAttempt, blockedUntil]
    now,              \* Date.now(), in milliseconds
    logins,           \* POST /verify-password requests that await validatePassword
    calls,            \* history: the checkRateLimit calls so far and the last block
    since,            \* history: store mutations since the last completed deploy
    resp              \* the last request and its response

storeVars  == <<token, storeDirs, payload, staterec, rnd>>
targetVars == <<localDirs, localFiles, sharedDirs, sharedFiles, wrapper, hasDeployedOnce>>
dockerVars == <<containers, dockerNetworkCIDRs>>
hostVars   == <<watcher, tmp>>
flightVars == <<gate, job, runs>>
limitVars  == <<rateLimitMap, now, logins, calls>>
vars == <<storeVars, targetVars, dockerVars, hostVars, flightVars, limitVars, since, resp>>

----------------------------------------------------------------------------
(* Bounds of the model *)

MaxSalts == 3      \* encryptions in one behaviour (each draws a fresh salt)
MaxFaults == 1     \* secrets that meet a filesystem error in one deploy
MaxContainers == 1 \* containers running at a time
MaxCalls == 7      \* checkRateLimit calls in one behaviour
MaxLogins == 2     \* password verifications that await validatePassword at a time
MaxTicks == 4      \* steps of the clock in one behaviour
MaxStreams == 4    \* Docker event streams opened in one behaviour

Services  == {<<"api">>}
Names     == {<<"K">>, <<"J">>}
Passwords == {"pw1", "pw2"}
Master    == "pw1"
Values    == {<<"v", "1">>}

----------------------------------------------------------------------------
(* Files *)

\* `${secret.name}.md5`
Md5Name(n) == n \o <<".", "md5">>

\* file.name.endsWith('.md5')
EndsWithMd5(f) == Len(f) >= 2 /\ f[Len(f) - 1] = "." /\ f[Len(f)] = "md5"

Remove(f, ks) == [k \in DOMAIN f \ ks |-> f[k]]
Write(f, k, v) == [x \in DOMAIN f \cup {k} |-> IF x = k THEN v ELSE f[x]]
WriteAll(f, g) == [x \in DOMAIN f \cup DOMAIN g |-> IF x \in DOMAIN g THEN g[x] ELSE f[x]]
Empty == [x \in {} |-> 0]

\* the segments of a name between its "/" tokens
RECURSIVE Segments(_)
Segments(n) ==
    IF n = <<>> THEN <<<<>>>>
    ELSE LET rest == Segments(Tail(n)) IN
         IF Head(n) = "/" THEN <<<<>>>> \o rest
         ELSE <<<<Head(n)>> \o Head(rest)>> \o Tail(rest)

\* path.join below a root directory: empty segments and "." vanish, ".." drops
\* the segment before it.  up: the levels the path climbs above the root
RECURSIVE Normalize(_, _, _)
Normalize(segs, up, stack) ==
    IF segs = <<>> THEN [up |-> up, segs |-> stack]
    ELSE IF Head(segs) \in {<<>>, <<".">>} THEN Normalize(Tail(segs), up, stack)
    ELSE IF Head(segs) = <<".", ".">>
    THEN IF stack = <<>> THEN Normalize(Tail(segs), up + 1, stack)
         ELSE Normalize(Tail(segs), up, SubSeq(stack, 1, Len(stack) - 1))
    ELSE Normalize(Tail(segs), up, Append(stack, Head(segs)))

\* the directories of CONTAINER_SECRETS_PATH and of DEPLOY_PATH, siblings of
\* the store directory SECRETS_STORE_PATH
LocalDirName  == <<"secrets">>
SharedDirName == <<"shared-secrets">>

\* path.join(SECRETS_STORE_PATH, serviceName, file): the tree the path lies
\* in (the store, a deployment target, or elsewhere on the disk), and the
\* directory and the file name below the root of that tree
storeFile(s, file) ==
    LET path == Normalize(Segments(s) \o Segments(file), 0, <<>>)
        at   == path.segs
    IN  IF path.up = 0 /\ Len(at) = 2
        THEN [root |-> "store", dir |-> at[1], file |-> at[2]]
        ELSE IF path.up = 1 /\ Len(at) = 3 /\ at[1] = LocalDirName
        THEN [root |-> "local", dir |-> at[2], file |-> at[3]]
        ELSE IF path.up = 1 /\ Len(at) = 3 /\ at[1] = SharedDirName
        THEN [root |-> "shared", dir |-> at[2], file |-> at[3]]
        ELSE [root |-> "elsewhere", dir |-> <<>>, file |-> <<>>]

\* a file name without its extension (".aes", ".state")
Stem(file) == SubSeq(file, 1, Len(file) - 2)

----------------------------------------------------------------------------
(* Cipher *)

\* A string is the sequence of its UTF-16 code units; the units that matter are
\* the two halves of a surrogate pair and the replacement character U+FFFD.
HighSurrogate == "\\uD83D"
LowSurrogate  == "\\uDE00"
Replacement   == "\\uFFFD"

\* cipher.update(plaintext, 'utf8'): the code points of the string, one element
\* per code point; a surrogate without its partner is written as U+FFFD
RECURSIVE utf8(_)
utf8(s) ==
    IF s = <<>> THEN <<>>
    ELSE IF Head(s) = HighSurrogate /\ Len(s) >= 2 /\ s[2] = LowSurrogate
    THEN <<<<HighSurrogate, LowSurrogate>>>> \o utf8(Tail(Tail(s)))
    ELSE IF Head(s) \in {HighSurrogate, LowSurrogate}
    THEN <<<<Replacement>>>> \o utf8(Tail(s))
    ELSE <<<<Head(s)>>>> \o utf8(Tail(s))

\* decrypted.toString('utf8'): the code units of the encoded code points
RECURSIVE toString(_)
toString(bytes) ==
    IF bytes = <<>> THEN <<>> ELSE Head(bytes) \o toString(Tail(bytes))

VALID_PASSWORD == <<"VALID_PASSWORD">>

deriveKey(password, salt) == <<password, salt>>

\* salt || iv || authTag || ciphertext; salt and iv are fresh per call
encrypt(plaintext, password, r) ==
    [salt |-> r, key |-> deriveKey(password, r), pt |-> utf8(plaintext)]

\* a file shorter than salt, iv and authentication tag together
Truncated == [salt |-> -1, key |-> <<>>, pt |-> <<>>]

\* a blob of full length with flipped bits: no key matches its authentication tag
Corrupt(blob) == [blob EXCEPT !.key = <<"", blob.salt>>]

\* the plaintext, or the message of the Error that is thrown
decrypt(blob, password) ==
    IF blob = Truncated
    THEN [ok |-> FALSE, pt |-> <<>>, error |-> "Invalid encrypted data format"]
    ELSE IF deriveKey(password, blob.salt) = blob.key
    THEN [ok |-> TRUE, pt |-> toString(blob.pt), error |-> ""]
    ELSE [ok |-> FALSE, pt |-> <<>>,
          error |-> "Decryption failed - invalid password or corrupted data"]

calculateMD5(content) == [md5 |-> content]

\* a validation that reports a missing token file like any other failure
validatePasswordNoEnoent(password) ==
    IF token = {} THEN [success |-> FALSE, message |-> "Invalid password"]
    ELSE LET d == IF (CHOOSE b \in token : TRUE) = [salt |-> -1, key |-> <<>>, pt |-> <<>>]
                  THEN [ok |-> FALSE, pt |-> <<>>]
                  ELSE LET b == CHOOSE b \in token : TRUE
                       IN  IF <<password, b.salt>> = b.key
                           THEN [ok |-> TRUE, pt |-> toString(b.pt)]
                           ELSE [ok |-> FALSE, pt |-> <<>>]
         IN  IF d.ok /\ d.pt = <<"VALID_PASSWORD">>
             THEN [success |-> TRUE, message |-> "Password validated successfully"]
             ELSE [success |-> FALSE, message |-> "Invalid password"]

\* a validation that takes a missing token file for a first-time setup and
\* lets the password pass
validatePasswordFirstTime(password) ==
    IF token = {} THEN [success |-> TRUE, message |-> "Validation file not found"]
    ELSE LET d == IF (CHOOSE b \in token : TRUE) = [salt |-> -1, key |-> <<>>, pt |-> <<>>]
                  THEN [ok |-> FALSE, pt |-> <<>>]
                  ELSE LET b == CHOOSE b \in token : TRUE
                       IN  IF <<password, b.salt>> = b.key
                           THEN [ok |-> TRUE, pt |-> toString(b.pt)]
                           ELSE [ok |-> FALSE, pt |-> <<>>]
         IN  IF d.ok /\ d.pt = <<"VALID_PASSWORD">>
             THEN [success |-> TRUE, message |-> "Password validated successfully"]
             ELSE [success |-> FALSE, message |-> "Invalid password"]

validatePassword(password) ==
    IF token = {} THEN [success |-> FALSE, message |-> "Validation file not found"]
    ELSE LET d == decrypt(CHOOSE b \in token : TRUE, password)
         IN  IF d.ok /\ d.pt = VALID_PASSWORD
             THEN [success |-> TRUE, message |-> "Password validated successfully"]
             ELSE [success |-> FALSE, message |-> "Invalid password"]

----------------------------------------------------------------------------
(* Secret state records *)

defaultState == [mounted |-> FALSE]

\* readSecretState: a missing state file reads as the default
readSecretState(k) == IF k \in DOMAIN staterec THEN staterec[k] ELSE defaultState

\* the fingerprint `${secretHash}:${stateHash}` of a secret with both files
currentHash(k) == [secret |-> calculateMD5(payload[k]), state |-> calculateMD5(staterec[k])]

Text(v) == [text |-> v]

----------------------------------------------------------------------------
(* Requests in flight *)

\* no setup request between its check and its write; creator: the password of
\* the request whose createPasswordValidation wrote the token file last;
\* damaged: the file was truncated or corrupted since
Gate(creator) == [pending |-> {}, creator |-> creator, damaged |-> FALSE]

\* no deploy request in flight
Idle ==
    [phase |-> "idle", pw |-> "", services |-> {}, pending |-> {}, results |-> Empty,
     valid |-> {}, aggregated |-> {},
     stats |-> [deployed |-> 0, updated |-> 0, skipped |-> 0, deleted |-> 0],
     swept |-> {}, unlinked |-> {}, prior |-> [deployed |-> FALSE, n |-> 0]]

----------------------------------------------------------------------------
(* History *)

NoKey == <<<<>>, <<>>>>
Fresh == [deployed |-> FALSE, n |-> 0, op |-> "", key |-> NoKey]
Clean == [deployed |-> TRUE, n |-> 0, op |-> "", key |-> NoKey]

\* one more store mutation since the last completed deploy
Mutated(op, k) ==
    IF since.n = 0 THEN [since EXCEPT !.n = 1, !.op = op, !.key = k]
    ELSE [since EXCEPT !.n = 2, !.op = "many", !.key = NoKey]

\* no checkRateLimit call yet.  allowedAt: per client address, the times of the
\* calls that were allowed since its entry was last deleted; blocked: per client
\* address, the blockedUntil of the last call that started a block
NoCalls == [n |-> 0, id |-> "", allowed |-> TRUE, allowedAt |-> Empty, blocked |-> Empty]

NoStats == [deployed |-> 0, updated |-> 0, skipped |-> 0, deleted |-> 0]

\* the response to a store request: the operation and its HTTP status
Resp(op, status) ==
    [op |-> op, status |-> status, key |-> NoKey, stats |-> NoStats, body |-> Text(<<>>),
     results |-> Empty, faults |-> Empty, wrote |-> {}, unlinked |-> {}, prior |-> Fresh,
     before |-> [local |-> Empty, shared |-> Empty],
     ip |-> <<>>, requester |-> [found |-> FALSE, labels |-> {}], dockerCalls |-> 0,
     pw |-> "", value |-> <<>>, message |-> ""]

----------------------------------------------------------------------------
(* Names *)

\* the character class of a token: a word of [a-zA-Z0-9_], a word that starts
\* with a hyphen, the dot, or a token holding a character outside the classes
TokenClass(t) ==
    IF t = "." THEN "dot"
    ELSE IF t \in {"-", "-x"} THEN "hyphen"
    ELSE IF t \in {"/", "*", " ", "="} THEN "other"
    ELSE "word"

\* /^[a-zA-Z0-9_][a-zA-Z0-9._-]*$/.test(secretName)
secretNameRegex(n) ==
    /\ Len(n) >= 1
    /\ TokenClass(n[1]) = "word"
    /\ \A i \in 1..Len(n) : TokenClass(n[i]) \in {"word", "dot", "hyphen"}

\* /^[a-zA-Z0-9_-]+$/.test(serviceName)
serviceNameRegex(s) ==
    /\ Len(s) >= 1
    /\ \A i \in 1..Len(s) : TokenClass(s[i]) \in {"word", "hyphen"}

----------------------------------------------------------------------------
(* Secret Store routes *)

\* POST /:serviceName/secrets
CreateSecret(s, n, pw) ==
    /\ UNCHANGED limitVars
    /\ UNCHANGED flightVars
    /\ rnd < MaxSalts
    /\ UNCHANGED <<token, targetVars, dockerVars, hostVars>>
    /\ IF ~secretNameRegex(n)
       THEN /\ UNCHANGED <<storeDirs, payload, staterec, rnd, since>>
            /\ resp' = Resp("create", 400)
       ELSE IF pw = ""
       THEN /\ UNCHANGED <<storeDirs, payload, staterec, rnd, since>>
            /\ resp' = Resp("create", 401)
       ELSE /\ storeDirs' = storeDirs \cup {s}
            /\ payload' = Write(payload, <<s, n>>, encrypt(<<>>, pw, rnd))
            /\ rnd' = rnd + 1
            /\ staterec' = Write(staterec, <<s, n>>, defaultState)
            /\ since' = Mutated("create", <<s, n>>)
            /\ resp' = Resp("create", 200)

\* POST /:serviceName/bulk-import, one NAME=value line
BulkImport(s, n, v, pw) ==
    /\ UNCHANGED limitVars
    /\ UNCHANGED flightVars
    /\ rnd < MaxSalts
    /\ UNCHANGED <<token, targetVars, dockerVars, hostVars>>
    /\ IF pw = ""
       THEN /\ UNCHANGED <<storeDirs, payload, staterec, rnd, since>>
            /\ resp' = Resp("import", 401)
       ELSE IF ~secretNameRegex(n)
       THEN /\ UNCHANGED <<storeDirs, payload, staterec, rnd, since>>
            /\ resp' = Resp("import", 400)
       ELSE /\ storeDirs' = storeDirs \cup {s}
            /\ payload' = Write(payload, <<s, n>>, encrypt(v, pw, rnd))
            /\ rnd' = rnd + 1
            /\ staterec' = Write(staterec, <<s, n>>, defaultState)
            /\ since' = Mutated("import", <<s, n>>)
            /\ resp' = Resp("import", 200)

\* PUT /:serviceName/secrets/:secretName
UpdateSecret(s, n, v, pw) ==
    /\ UNCHANGED limitVars
    /\ UNCHANGED flightVars
    /\ rnd < MaxSalts
    /\ UNCHANGED <<token, staterec, wrapper, hasDeployedOnce, dockerVars, hostVars>>
    /\ IF v = <<>>
       THEN /\ UNCHANGED <<storeDirs, payload, rnd, since>>
            /\ UNCHANGED <<localDirs, localFiles, sharedDirs, sharedFiles>>
            /\ resp' = [Resp("update", 400) EXCEPT !.key = <<s, n>>, !.pw = pw, !.value = v]
       ELSE IF pw = ""
       THEN /\ UNCHANGED <<storeDirs, payload, rnd, since>>
            /\ UNCHANGED <<localDirs, localFiles, sharedDirs, sharedFiles>>
            /\ resp' = [Resp("update", 401) EXCEPT !.key = <<s, n>>, !.pw = pw, !.value = v]
       ELSE \E p \in {storeFile(s, n \o <<".", "aes">>)} :
            LET blob == encrypt(v, pw, rnd)
                k    == <<p.dir, Stem(p.file)>>
                at   == <<p.dir, p.file>>
            IN  /\ rnd' = rnd + 1
                /\ storeDirs' = IF p.root = "store" THEN storeDirs \cup {p.dir} ELSE storeDirs
                /\ payload' = IF p.root = "store" THEN Write(payload, k, blob) ELSE payload
                /\ localDirs' = IF p.root = "local" THEN localDirs \cup {p.dir} ELSE localDirs
                /\ localFiles' = IF p.root = "local" THEN Write(localFiles, at, blob)
                                 ELSE localFiles
                /\ sharedDirs' = IF p.root = "shared" THEN sharedDirs \cup {p.dir}
                                 ELSE sharedDirs
                /\ sharedFiles' = IF p.root = "shared" THEN Write(sharedFiles, at, blob)
                                  ELSE sharedFiles
                /\ since' = IF p.root # "store" THEN since
                            ELSE Mutated(IF k \in DOMAIN payload THEN "update"
                                         ELSE "update-new", k)
                /\ resp' = [Resp("update", 200) EXCEPT !.key = <<s, n>>, !.pw = pw, !.value = v]

\* decryptSecret: the plaintext, or the message of the Error that is thrown
decryptSecret(k, password) ==
    IF k \notin DOMAIN payload
    THEN [ok |-> FALSE, pt |-> <<>>, error |-> "ENOENT"]
    ELSE decrypt(payload[k], password)

\* GET /:serviceName/secrets/:secretName: the secret view with the plaintext, or
\* an alert with the message of the error
ReadSecret(s, n, pw) ==
    /\ UNCHANGED limitVars
    /\ UNCHANGED flightVars
    /\ UNCHANGED <<storeVars, targetVars, dockerVars, hostVars, since>>
    /\ LET base == [Resp("read", 401) EXCEPT !.key = <<s, n>>, !.pw = pw]
           d    == decryptSecret(<<s, n>>, pw)
       IN  resp' = IF pw = "" THEN base
                   ELSE IF d.ok THEN [base EXCEPT !.status = 200, !.value = d.pt]
                   ELSE [base EXCEPT !.status = 500, !.message = d.error]

\* DELETE /:serviceName/secrets/:secretName
DeleteSecret(s, n, pw) ==
    /\ UNCHANGED limitVars
    /\ UNCHANGED flightVars
    /\ UNCHANGED <<token, storeDirs, rnd, targetVars, dockerVars, hostVars>>
    /\ IF pw = "" \/ ~validatePassword(pw).success
       THEN /\ UNCHANGED <<payload, staterec, since>>
            /\ resp' = [Resp("delete", 401) EXCEPT !.pw = pw]
       ELSE IF <<s, n>> \notin DOMAIN payload
       THEN /\ UNCHANGED <<payload, staterec, since>>
            /\ resp' = [Resp("delete", 500) EXCEPT !.pw = pw]
       ELSE /\ payload' = Remove(payload, {<<s, n>>})
            /\ staterec' = Remove(staterec, {<<s, n>>})
            /\ since' = Mutated("delete", <<s, n>>)
            /\ resp' = [Resp("delete", 200) EXCEPT !.pw = pw]

\* PUT /:serviceName/secrets/:secretName/rename
RenameSecret(s, n, n2, pw) ==
    /\ UNCHANGED limitVars
    /\ UNCHANGED flightVars
    /\ UNCHANGED <<token, storeDirs, rnd, targetVars, dockerVars, hostVars>>
    /\ IF ~secretNameRegex(n2)
       THEN /\ UNCHANGED <<payload, staterec, since>>
            /\ resp' = Resp("rename", 400)
       ELSE IF pw = ""
       THEN /\ UNCHANGED <<payload, staterec, since>>
            /\ resp' = Resp("rename", 401)
       ELSE IF <<s, n2>> \in DOMAIN payload
       THEN /\ UNCHANGED <<payload, staterec, since>>
            /\ resp' = Resp("rename", 400)
       ELSE IF <<s, n>> \notin DOMAIN payload
       THEN /\ UNCHANGED <<payload, staterec, since>>
            /\ resp' = Resp("rename", 500)
       ELSE /\ payload' = Write(Remove(payload, {<<s, n>>}), <<s, n2>>, payload[<<s, n>>])
            /\ staterec' = IF <<s, n>> \in DOMAIN staterec
                           THEN Write(Remove(staterec, {<<s, n>>}), <<s, n2>>, staterec[<<s, n>>])
                           ELSE staterec
            /\ since' = Mutated("rename", <<s, n>>)
            /\ resp' = Resp("rename", 200)

\* POST /services (create a service directory)
CreateService(s) ==
    /\ UNCHANGED limitVars
    /\ UNCHANGED flightVars
    /\ UNCHANGED <<token, payload, staterec, rnd, targetVars, dockerVars, hostVars, since>>
    /\ IF Len(s) = 0 \/ ~serviceNameRegex(s)
       THEN /\ UNCHANGED storeDirs
            /\ resp' = [Resp("create-service", 400) EXCEPT !.key = <<s, <<>>>>]
       ELSE /\ storeDirs' = storeDirs \cup {s}
            /\ resp' = [Resp("create-service", 200) EXCEPT !.key = <<s, <<>>>>]

\* the files of a directory tree after the directory s was renamed to s2
MoveDir(f, s, s2) ==
    [k \in {x \in DOMAIN f : x[1] # s} \cup {<<s2, x[2]>> : x \in {y \in DOMAIN f : y[1] = s}} |->
        IF k[1] = s2 THEN f[<<s, k[2]>>] ELSE f[k]]

\* the files of a directory tree after fs.rm of the directory s
RemoveDir(f, s) == Remove(f, {k \in DOMAIN f : k[1] = s})

\* PUT /services/:serviceName (rename a service)
RenameService(s, s2, pw) ==
    /\ UNCHANGED limitVars
    /\ UNCHANGED flightVars
    /\ UNCHANGED <<token, rnd, localDirs, localFiles, wrapper, hasDeployedOnce, dockerVars, hostVars>>
    /\ LET refused(status) ==
               /\ UNCHANGED <<storeDirs, payload, staterec, sharedDirs, sharedFiles, since>>
               /\ resp' = [Resp("rename-service", status) EXCEPT !.key = <<s, s2>>]
       IN  IF pw = "" THEN refused(401)
           ELSE IF Len(s2) = 0 \/ ~serviceNameRegex(s2) THEN refused(400)
           ELSE IF ~validatePassword(pw).success THEN refused(401)
           ELSE IF s2 \in storeDirs THEN refused(400)
           ELSE IF s \notin storeDirs THEN refused(500)
           ELSE /\ storeDirs' = (storeDirs \ {s}) \cup {s2}
                /\ payload' = MoveDir(payload, s, s2)
                /\ staterec' = MoveDir(staterec, s, s2)
                /\ sharedDirs' = sharedDirs \ {s}
                /\ sharedFiles' = RemoveDir(sharedFiles, s)
                /\ since' = Mutated("rename-service", <<s, s2>>)
                /\ resp' = [Resp("rename-service", 200) EXCEPT !.key = <<s, s2>>]

\* DELETE /services/:serviceName (delete a service)
DeleteService(s, pw) ==
    /\ UNCHANGED limitVars
    /\ UNCHANGED flightVars
    /\ UNCHANGED <<token, rnd, targetVars, dockerVars, hostVars>>
    /\ IF pw = "" \/ ~validatePassword(pw).success
       THEN /\ UNCHANGED <<storeDirs, payload, staterec, since>>
            /\ resp' = [Resp("delete-service", 401) EXCEPT !.key = <<s, <<>>>>]
       ELSE /\ storeDirs' = storeDirs \ {s}
            /\ payload' = RemoveDir(payload, s)
            /\ staterec' = RemoveDir(staterec, s)
            /\ since' = Mutated("delete-service", <<s, <<>>>>)
            /\ resp' = [Resp("delete-service", 200) EXCEPT !.key = <<s, <<>>>>]

\* toggleSecretMounted
toggleSecretMounted(k) == [mounted |-> ~readSecretState(k).mounted]

\* POST /:serviceName/secrets/:secretName/toggle-mount
ToggleMount(s, n) ==
    /\ UNCHANGED limitVars
    /\ UNCHANGED flightVars
    /\ UNCHANGED <<token, storeDirs, payload, rnd, localDirs, sharedDirs, wrapper,
                   hasDeployedOnce, dockerVars, hostVars>>
    /\ \E p \in {storeFile(s, n \o <<".", "state">>)} :
       LET k     == <<p.dir, Stem(p.file)>>
           at    == <<p.dir, p.file>>
           dirs  == IF p.root = "local" THEN localDirs ELSE sharedDirs
           files == IF p.root = "local" THEN localFiles ELSE sharedFiles
           \* readSecretState and the flip, on a file of a deployment target
           flip  == IF at \in DOMAIN files THEN [mounted |-> ~files[at].mounted]
                    ELSE [mounted |-> ~defaultState.mounted]
           refused == /\ UNCHANGED <<staterec, localFiles, sharedFiles, since>>
                      /\ resp' = [Resp("toggle", 500) EXCEPT !.key = <<s, n>>]
       IN  IF p.root = "store"
           THEN IF p.dir \notin storeDirs
                THEN refused
                ELSE /\ staterec' = Write(staterec, k, toggleSecretMounted(k))
                     /\ UNCHANGED <<localFiles, sharedFiles>>
                     /\ since' = Mutated("toggle", k)
                     /\ resp' = [Resp("toggle", 200) EXCEPT !.key = <<s, n>>]
           ELSE IF p.root = "elsewhere"
           THEN refused
           ELSE IF p.dir \notin dirs
                   \/ (at \in DOMAIN files /\ "mounted" \notin DOMAIN files[at])
           THEN refused
           ELSE /\ localFiles' = IF p.root = "local" THEN Write(localFiles, at, flip)
                                 ELSE localFiles
                /\ sharedFiles' = IF p.root = "shared" THEN Write(sharedFiles, at, flip)
                                  ELSE sharedFiles
                /\ UNCHANGED <<staterec, since>>
                /\ resp' = [Resp("toggle", 200) EXCEPT !.key = <<s, n>>]

----------------------------------------------------------------------------
(* Password Gate routes *)

\* the page a password route renders
Page(op, view, message) == [Resp(op, 200) EXCEPT !.body = [view |-> view, message |-> message]]

\* POST /verify-password-setup, up to the call of createPasswordValidation.
\* allowed: the answer of checkRateLimit, which depends on the clock and on the
\* earlier attempts of the client address.
SetupCheck(pw, allowed) ==
    /\ UNCHANGED limitVars
    /\ UNCHANGED <<storeVars, targetVars, dockerVars, hostVars, runs, job, since>>
    /\ IF pw = ""
       THEN /\ UNCHANGED gate
            /\ resp' = Page("setup", "password_error", "")
       ELSE IF ~allowed
       THEN /\ UNCHANGED gate
            /\ resp' = Page("setup", "password_error", "Too many failed attempts")
       ELSE IF validatePassword(pw).success
               \/ validatePassword(pw).message # "Validation file not found"
       THEN /\ UNCHANGED gate
            /\ resp' = Page("setup", "password_error",
                             "Password already set. Please use the login form.")
       ELSE /\ gate' = [gate EXCEPT !.pending = @ \cup {pw}]
            /\ UNCHANGED resp

\* createPasswordValidation and the rest of POST /verify-password-setup
SetupWrite(pw) ==
    /\ UNCHANGED limitVars
    /\ pw \in gate.pending
    /\ rnd < MaxSalts
    /\ UNCHANGED <<storeDirs, payload, staterec, targetVars, dockerVars, hostVars, runs, job, since>>
    /\ token' = {encrypt(VALID_PASSWORD, pw, rnd)}
    /\ rnd' = rnd + 1
    /\ gate' = [pending |-> gate.pending \ {pw}, creator |-> pw, damaged |-> FALSE]
    /\ resp' = Page("setup", "password_success",
                     "Password set successfully - First time setup complete")

\* POST /verify-password
VerifyPassword(pw, allowed) ==
    /\ UNCHANGED limitVars
    /\ UNCHANGED <<storeVars, targetVars, dockerVars, hostVars, flightVars, since>>
    /\ IF pw = ""
       THEN resp' = Page("verify", "password_error", "")
       ELSE IF ~allowed
       THEN resp' = Page("verify", "password_error", "Too many failed attempts")
       ELSE IF ~validatePassword(pw).success
       THEN resp' = Page("verify", "password_error", "Invalid password. Please try again.")
       ELSE resp' = Page("verify", "password_success", validatePassword(pw).message)

\* the token file loses its tail or has bits flipped (disk, interrupted write)
DamageToken ==
    /\ UNCHANGED limitVars
    /\ token # {}
    /\ ~gate.damaged
    /\ UNCHANGED <<storeDirs, payload, staterec, rnd, targetVars, dockerVars, hostVars, runs, job, since, resp>>
    /\ \E b \in token : token' \in {{Truncated}, {Corrupt(b)}}
    /\ gate' = [gate EXCEPT !.damaged = TRUE]

----------------------------------------------------------------------------
(* Rate limiter of the password routes *)

MAX_ATTEMPTS      == 5
BLOCK_DURATION_MS == 15 * 60 * 1000
ATTEMPT_WINDOW_MS == 5 * 60 * 1000
Minute            == 60000

\* Math.ceil((entry.blockedUntil - now) / 60000)
remainingMinutes(blockedUntil, t) == (blockedUntil - t + Minute - 1) \div Minute

\* a limiter that blocks at the attempt after the one that exceeds the limit
checkRateLimitOneMore(map, identifier, t) ==
    IF identifier \notin DOMAIN map
    THEN [allowed |-> TRUE, message |-> <<>>,
          map |-> [x \in DOMAIN map \cup {identifier} |->
                      IF x = identifier THEN [attempts |-> 1, lastAttempt |-> t] ELSE map[x]]]
    ELSE LET entry == map[identifier]
             put(e) == [x \in DOMAIN map |-> IF x = identifier THEN e ELSE map[x]]
         IN
         IF "blockedUntil" \in DOMAIN entry /\ entry.blockedUntil > t
         THEN [allowed |-> FALSE,
               message |-> <<"Too many failed attempts. Try again in",
                             (entry.blockedUntil - t + 59999) \div 60000, "minutes.">>,
               map |-> map]
         ELSE IF t - entry.lastAttempt > 5 * 60 * 1000
         THEN [allowed |-> TRUE, message |-> <<>>,
               map |-> put([attempts |-> 1, lastAttempt |-> t])]
         ELSE IF entry.attempts + 1 > 5 + 1
         THEN [allowed |-> FALSE,
               message |-> <<"Too many failed attempts. Blocked for", 15, "minutes.">>,
               map |-> put([attempts |-> entry.attempts + 1, lastAttempt |-> t,
                            blockedUntil |-> t + 15 * 60 * 1000])]
         ELSE [allowed |-> TRUE, message |-> <<>>,
               map |-> put([entry EXCEPT !.attempts = @ + 1, !.lastAttempt = t])]

\* checkRateLimit at time t: the answer, and the map after the call
checkRateLimit(map, identifier, t) ==
    IF identifier \notin DOMAIN map
    THEN [allowed |-> TRUE, message |-> <<>>,
          map |-> Write(map, identifier, [attempts |-> 1, lastAttempt |-> t])]
    ELSE LET entry == map[identifier] IN
         IF "blockedUntil" \in DOMAIN entry /\ entry.blockedUntil > t
         THEN [allowed |-> FALSE,
               message |-> <<"Too many failed attempts. Try again in",
                             remainingMinutes(entry.blockedUntil, t), "minutes.">>,
               map |-> map]
         ELSE IF t - entry.lastAttempt > ATTEMPT_WINDOW_MS
         THEN [allowed |-> TRUE, message |-> <<>>,
               map |-> Write(map, identifier, [attempts |-> 1, lastAttempt |-> t])]
         ELSE IF entry.attempts + 1 > MAX_ATTEMPTS
         THEN [allowed |-> FALSE,
               message |-> <<"Too many failed attempts. Blocked for",
                             BLOCK_DURATION_MS \div Minute, "minutes.">>,
               map |-> Write(map, identifier,
                             [attempts |-> entry.attempts + 1, lastAttempt |-> t,
                              blockedUntil |-> t + BLOCK_DURATION_MS])]
         ELSE [allowed |-> TRUE, message |-> <<>>,
               map |-> Write(map, identifier,
                             [entry EXCEPT !.attempts = @ + 1, !.lastAttempt = t])]

\* resetRateLimit
resetRateLimit(map, identifier) == Remove(map, {identifier})

\* the last MAX_ATTEMPTS + 1 elements of a sequence
Recent(s) == IF Len(s) > MAX_ATTEMPTS + 1 THEN SubSeq(s, Len(s) - MAX_ATTEMPTS, Len(s)) ELSE s

\* POST /verify-password from address ip, up to `await validatePassword`: the
\* call of checkRateLimit and the error page when it refuses
VerifyBegin(ip, pw) ==
    /\ calls.n < MaxCalls
    /\ Cardinality(logins) < MaxLogins
    /\ UNCHANGED <<storeVars, targetVars, dockerVars, hostVars, flightVars, since, now>>
    /\ IF pw = ""
       THEN /\ UNCHANGED <<rateLimitMap, logins, calls>>
            /\ resp' = [Page("verify", "password_error", "") EXCEPT !.ip = ip]
       ELSE LET r == checkRateLimit(rateLimitMap, ip, now)
                was == IF ip \in DOMAIN calls.allowedAt THEN calls.allowedAt[ip] ELSE <<>>
            IN  /\ rateLimitMap' = r.map
                /\ calls' = [n |-> calls.n + 1, id |-> ip, allowed |-> r.allowed,
                             allowedAt |-> IF r.allowed
                                           THEN Write(calls.allowedAt, ip, Recent(Append(was, now)))
                                           ELSE calls.allowedAt,
                             blocked |-> IF ~r.allowed /\ r.map # rateLimitMap
                                         THEN Write(calls.blocked, ip, r.map[ip].blockedUntil)
                                         ELSE calls.blocked]
                /\ IF r.allowed
                   THEN /\ logins' = logins \cup {[ip |-> ip, pw |-> pw]}
                        /\ UNCHANGED resp
                   ELSE /\ UNCHANGED logins
                        /\ resp' = [Page("verify", "password_error", r.message) EXCEPT !.ip = ip]

\* the rest of POST /verify-password: validatePassword has answered
VerifyEnd(req) ==
    /\ req \in logins
    /\ UNCHANGED <<storeVars, targetVars, dockerVars, hostVars, flightVars, since, now>>
    /\ logins' = logins \ {req}
    /\ IF ~validatePassword(req.pw).success
       THEN /\ UNCHANGED <<rateLimitMap, calls>>
            /\ resp' = [Page("verify", "password_error", "Invalid password. Please try again.")
                         EXCEPT !.ip = req.ip]
       ELSE /\ rateLimitMap' = resetRateLimit(rateLimitMap, req.ip)
            /\ calls' = [calls EXCEPT !.allowedAt = Remove(@, {req.ip})]
            /\ resp' = [Page("verify", "password_success", validatePassword(req.pw).message)
                         EXCEPT !.ip = req.ip]

\* the clock advances by the length of the attempt window
Tick ==
    /\ now < MaxTicks * ATTEMPT_WINDOW_MS
    /\ now' = now + ATTEMPT_WINDOW_MS
    /\ UNCHANGED <<storeVars, targetVars, dockerVars, hostVars, flightVars, since, resp>>
    /\ UNCHANGED <<rateLimitMap, logins, calls>>

----------------------------------------------------------------------------
(* The services tree *)

\* checkSecretDeploymentStatus: the fingerprint file at the container-local
\* target against the current fingerprint; any error reads as not deployed
checkSecretDeploymentStatus(k) ==
    LET md5Path == <<k[1], Md5Name(k[2])>> IN
    IF md5Path \notin DOMAIN localFiles \/ k \notin DOMAIN payload \/ k \notin DOMAIN staterec
    THEN [isDeployed |-> FALSE, hasChanges |-> FALSE]
    ELSE [isDeployed |-> TRUE, hasChanges |-> currentHash(k) # localFiles[md5Path]]

\* buildServicesTree: every secret with its deployment status and its flag
buildServicesTree ==
    [k \in DOMAIN payload |->
        [isDeployed |-> checkSecretDeploymentStatus(k).isDeployed,
         hasChanges |-> checkSecretDeploymentStatus(k).hasChanges,
         mounted |-> readSecretState(k).mounted]]

----------------------------------------------------------------------------
(* Deployment Engine: POST /deploy *)

\* buildServicesTree: every <name>.aes of every service directory
Tree == DOMAIN payload

FaultKinds == {"readState", "readPayload", "writePlain", "writeMd5"}

\* One per-secret task of the deploy handler, reading the fingerprint from the
\* container-local files lf.  valid: the pair was added to validSecrets; a
\* rejected task carries the reason that is logged.
deployTask(k, pw, fault, lf) ==
    LET md5Path == <<k[1], Md5Name(k[2])>>
        settled(status, reason) ==
            [valid |-> TRUE, status |-> status, reason |-> reason,
             local |-> Empty, shared |-> Empty]
    IN
    IF fault = "readState"
    THEN [settled("rejected", "state") EXCEPT !.valid = FALSE]
    ELSE IF fault = "readPayload" \/ k \notin DOMAIN payload \/ k \notin DOMAIN staterec
    THEN settled("rejected", "md5")
    ELSE
    LET state == readSecretState(k)
        cur   == currentHash(k)
        wasDeployed == md5Path \in DOMAIN lf
    IN
    IF wasDeployed /\ lf[md5Path] = cur
    THEN settled("skipped", "")
    ELSE
    LET d == decrypt(payload[k], pw) IN
    IF ~d.ok
    THEN settled("rejected", "decrypt")
    ELSE
    LET plain == IF fault = "writePlain" THEN Empty ELSE Write(Empty, k, Text(d.pt))
        both  == IF fault = "writeMd5" THEN plain ELSE Write(plain, md5Path, cur)
        mount == IF state.mounted
                 THEN Write(Write(Empty, k, Text(d.pt)), md5Path, cur)
                 ELSE Empty
    IN
    [settled(IF fault \in {"writePlain", "writeMd5"} THEN "rejected"
             ELSE IF wasDeployed THEN "updated" ELSE "deployed",
             IF fault \in {"writePlain", "writeMd5"} THEN "write" ELSE "")
     EXCEPT !.local = both, !.shared = mount]

\* two tasks of one service that write a file of the same name
Collide(T) ==
    \E a \in T, b \in T :
        /\ a # b
        /\ a[1] = b[1]
        /\ {a[2], Md5Name(a[2])} \cap {b[2], Md5Name(b[2])} # {}

Orders(T) ==
    {o \in [1..Cardinality(T) -> T] : \A i, j \in DOMAIN o : i # j => o[i] # o[j]}

\* The ways the concurrent tasks can interleave, as far as it shows: the order in
\* which their writes land, and whether a task reads its fingerprint before any
\* write or after the writes of the tasks ahead of it.  Tasks that write disjoint
\* files give the same result in every order.
Schedules(T) ==
    IF Collide(T)
    THEN [order : Orders(T), readsFirst : BOOLEAN]
    ELSE {[order |-> CHOOSE o \in Orders(T) : TRUE, readsFirst |-> TRUE]}

RECURSIVE RunTasks(_, _, _, _, _, _, _)
RunTasks(sched, i, pw, faults, lf, sf, results) ==
    IF i > Len(sched.order)
    THEN [local |-> lf, shared |-> sf, results |-> results]
    ELSE LET k == sched.order[i]
             r == deployTask(k, pw, IF k \in DOMAIN faults THEN faults[k] ELSE "none",
                             IF sched.readsFirst THEN localFiles ELSE lf)
         IN  RunTasks(sched, i + 1, pw, faults,
                      WriteAll(lf, r.local), WriteAll(sf, r.shared),
                      Write(results, k, r))

\* an aggregation that counts a rejected task as skipped
CountRejectedAsSkipped(results, status) ==
    Cardinality({k \in DOMAIN results :
                    \/ results[k].status = status
                    \/ status = "skipped" /\ results[k].status = "rejected"})

\* the aggregation loop over the settled results
Count(results, status) == Cardinality({k \in DOMAIN results : results[k].status = status})

\* the cleanup of one target: a file that is no fingerprint and whose
\* service/name is not in validSecrets is unlinked with its fingerprint
Orphans(files, valid) == {p \in DOMAIN files : ~EndsWithMd5(p[2]) /\ p \notin valid}
Unlinked(files, valid) ==
    LET orphans == Orphans(files, valid)
    IN  (orphans \cup {<<p[1], Md5Name(p[2])>> : p \in orphans}) \cap DOMAIN files
Sweep(files, valid) ==
    [files |-> Remove(files, Unlinked(files, valid)),
     deleted |-> Cardinality(Orphans(files, valid))]

\* The success summary.  With it the model keeps what the run did: how each
\* task settled, the filesystem errors it met, the paths it wrote and unlinked
\* in each target, the targets as they were before the run, and the store
\* mutations that preceded the run.
DeployResp(stats, run, valid, faults) ==
    [Resp("deploy", 200) EXCEPT
     !.stats = stats,
     !.results = [k \in DOMAIN run.results |->
                     [status |-> run.results[k].status, reason |-> run.results[k].reason]],
     !.faults = faults,
     !.before = [local |-> localFiles, shared |-> sharedFiles],
     !.wrote = UNION {({"local"} \X DOMAIN run.results[k].local)
                        \cup ({"shared"} \X DOMAIN run.results[k].shared) :
                      k \in DOMAIN run.results},
     !.unlinked = ({"local"} \X Unlinked(run.local, valid))
                    \cup ({"shared"} \X Unlinked(run.shared, valid)),
     !.prior = since]

DeployAll(pw, faults, sched) ==
    /\ UNCHANGED limitVars
    /\ UNCHANGED flightVars
    /\ UNCHANGED <<storeVars, dockerVars, hostVars>>
    /\ IF pw = "" \/ ~validatePassword(pw).success
       THEN /\ UNCHANGED <<targetVars, since>>
            /\ resp' = [Resp("deploy", 401) EXCEPT !.pw = pw]
       ELSE \E run \in {RunTasks(sched, 1, pw, faults, localFiles, sharedFiles, Empty)} :
            \E valid \in {{k \in DOMAIN run.results : run.results[k].valid}} :
            \E shared \in {Sweep(run.shared, valid)}, local \in {Sweep(run.local, valid)} :
            LET stats  == [deployed |-> Count(run.results, "deployed"),
                           updated  |-> Count(run.results, "updated"),
                           skipped  |-> Count(run.results, "skipped"),
                           deleted  |-> shared.deleted + local.deleted]
            IN  /\ localDirs' = localDirs \cup storeDirs
                /\ sharedDirs' = sharedDirs \cup storeDirs
                /\ localFiles' = local.files
                /\ sharedFiles' = shared.files
                /\ wrapper' = TRUE
                /\ hasDeployedOnce' = TRUE
                /\ since' = Clean
                /\ resp' = [DeployResp(stats, run, valid, faults) EXCEPT !.pw = pw]

\* a deploy with no filesystem error
Deploy(pw) == \E sched \in Schedules(Tree) : DeployAll(pw, Empty, sched)

----------------------------------------------------------------------------
(* POST /deploy step by step: the promises of one request *)

\* a join that does not wait for the services
JoinedAtOnce(j) == TRUE

\* await Promise.all(services.map(...)): every service has aggregated the
\* settled results of its tasks
Joined(j) == j.aggregated = j.services

\* the handler up to the start of the per-secret tasks
DeployStart(pw) ==
    /\ UNCHANGED limitVars
    /\ job.phase = "idle"
    /\ UNCHANGED <<storeVars, dockerVars, hostVars, runs, gate, localFiles, sharedFiles, wrapper, hasDeployedOnce>>
    /\ IF pw = "" \/ ~validatePassword(pw).success
       THEN /\ UNCHANGED <<localDirs, sharedDirs, job, since>>
            /\ resp' = Resp("deploy", 401)
       ELSE /\ localDirs' = localDirs \cup storeDirs
            /\ sharedDirs' = sharedDirs \cup storeDirs
            /\ job' = [Idle EXCEPT !.phase = "tasks", !.pw = pw, !.services = storeDirs,
                                   !.pending = Tree, !.prior = since]
            /\ since' = Clean
            /\ UNCHANGED resp

\* one per-secret task runs and settles, fulfilled or rejected
TaskSettle(k, fault) ==
    /\ UNCHANGED limitVars
    /\ k \in job.pending
    /\ UNCHANGED <<storeVars, dockerVars, hostVars, runs, gate, localDirs, sharedDirs, wrapper, hasDeployedOnce,
                   since, resp>>
    /\ \E r \in {deployTask(k, job.pw, fault, localFiles)} :
          /\ localFiles' = WriteAll(localFiles, r.local)
          /\ sharedFiles' = WriteAll(sharedFiles, r.shared)
          /\ job' = [job EXCEPT !.pending = @ \ {k},
                                !.results = Write(@, k, [status |-> r.status, reason |-> r.reason]),
                                !.valid = IF r.valid THEN @ \cup {k} ELSE @]

\* Promise.allSettled of one service has resolved: its aggregation loop
ServiceAggregate(s) ==
    /\ UNCHANGED limitVars
    /\ job.phase = "tasks"
    /\ s \in job.services \ job.aggregated
    /\ \A k \in job.pending : k[1] # s
    /\ UNCHANGED <<storeVars, targetVars, dockerVars, hostVars, runs, gate, since, resp>>
    /\ LET mine == [k \in {x \in DOMAIN job.results : x[1] = s} |-> job.results[k]]
       IN  job' = [job EXCEPT !.aggregated = @ \cup {s},
                              !.stats.deployed = @ + Count(mine, "deployed"),
                              !.stats.updated = @ + Count(mine, "updated"),
                              !.stats.skipped = @ + Count(mine, "skipped")]

\* the mkdir of a service directory in a target fails: the outer Promise.all
\* rejects and the handler answers at once; the tasks of the other services
\* that were started go on
ServiceMkdirFails(s) ==
    /\ UNCHANGED limitVars
    /\ job.phase = "tasks"
    /\ s \in job.services \ job.aggregated
    /\ \A k \in DOMAIN job.results : k[1] # s
    /\ UNCHANGED <<storeVars, targetVars, dockerVars, hostVars, runs, gate, since>>
    /\ job' = [job EXCEPT !.phase = "failed", !.pending = {k \in @ : k[1] # s}]
    /\ resp' = Resp("deploy", 500)

\* the tasks left over by a failed request have all settled
JobEnds ==
    /\ UNCHANGED limitVars
    /\ job.phase = "failed"
    /\ job.pending = {}
    /\ UNCHANGED <<storeVars, targetVars, dockerVars, hostVars, runs, gate, since, resp>>
    /\ job' = Idle

\* after the join: the wrapper copy and markDeploymentOccurred
WrapperAndMark ==
    /\ UNCHANGED limitVars
    /\ job.phase = "tasks"
    /\ Joined(job)
    /\ UNCHANGED <<storeVars, dockerVars, hostVars, runs, gate, localDirs, localFiles, sharedDirs, sharedFiles,
                   since, resp>>
    /\ wrapper' = TRUE
    /\ hasDeployedOnce' = TRUE
    /\ job' = [job EXCEPT !.phase = "sweep"]

\* the cleanup of one target; the two cleanups run together
SweepTarget(target) ==
    /\ UNCHANGED limitVars
    /\ job.phase = "sweep"
    /\ target \in {"shared", "local"} \ job.swept
    /\ UNCHANGED <<storeVars, dockerVars, hostVars, runs, gate, localDirs, sharedDirs, wrapper, hasDeployedOnce,
                   since, resp>>
    /\ LET files == IF target = "local" THEN localFiles ELSE sharedFiles
           sw    == Sweep(files, job.valid)
       IN  /\ localFiles' = IF target = "local" THEN sw.files ELSE localFiles
           /\ sharedFiles' = IF target = "shared" THEN sw.files ELSE sharedFiles
           /\ job' = [job EXCEPT !.swept = @ \cup {target},
                                  !.stats.deleted = @ + sw.deleted,
                                  !.unlinked = @ \cup ({target} \X Unlinked(files, job.valid))]

\* both cleanups are done: the success summary is rendered from the counters
Respond ==
    /\ UNCHANGED limitVars
    /\ job.phase = "sweep"
    /\ job.swept = {"shared", "local"}
    /\ UNCHANGED <<storeVars, targetVars, dockerVars, hostVars, runs, gate, since>>
    /\ resp' = [Resp("deploy", 200) EXCEPT !.stats = job.stats, !.results = job.results,
                                           !.unlinked = job.unlinked, !.prior = job.prior]
    /\ job' = Idle

----------------------------------------------------------------------------
(* Container watcher: the stream of Docker events *)

\* request: watcherRequest, 0 for null; open: the event streams that are open;
\* destroyed: the requests that were destroyed and whose error event is still
\* to come; timers: the pending setTimeout(startContainerWatcher, 5000);
\* n: the requests made so far; stopped: stopContainerWatcher was the last
\* explicit call
NoWatcher ==
    [request |-> 0, open |-> {}, destroyed |-> {}, timers |-> 0, n |-> 0, stopped |-> FALSE]

WatcherFrame ==
    /\ UNCHANGED limitVars
    /\ UNCHANGED flightVars
    /\ UNCHANGED <<storeVars, targetVars, containers, dockerNetworkCIDRs, tmp, since, resp>>

\* the body of startContainerWatcher: http.get opens a stream unless
\* watcherRequest is set
startContainerWatcher(w) ==
    IF w.request # 0 THEN w
    ELSE [w EXCEPT !.request = w.n + 1, !.open = @ \cup {w.n + 1}, !.n = @ + 1]

\* a handler of 'end' or 'error': watcherRequest = null and the restart timer
autoRestart(w) == [w EXCEPT !.request = 0, !.timers = @ + 1]

\* startContainerWatcher() called by the server
StartWatcher ==
    /\ WatcherFrame
    /\ watcher.n < MaxStreams
    /\ watcher' = [startContainerWatcher(watcher) EXCEPT !.stopped = FALSE]

\* stopContainerWatcher(); raises: destroy() will emit an error event
StopWatcher(raises) ==
    /\ WatcherFrame
    /\ watcher' = IF watcher.request = 0 THEN [watcher EXCEPT !.stopped = TRUE]
                  ELSE [watcher EXCEPT !.request = 0,
                                       !.open = @ \ {watcher.request},
                                       !.destroyed = IF raises THEN @ \cup {watcher.request}
                                                     ELSE @,
                                       !.stopped = TRUE]

\* the daemon ends the stream, or the response or the request fails: the
\* handlers of res 'end', res 'error' and request 'error'
StreamEnds(id) ==
    /\ WatcherFrame
    /\ id \in watcher.open
    /\ watcher' = [autoRestart(watcher) EXCEPT !.open = @ \ {id}]

\* the error event of a destroyed request arrives
DestroyError(id) ==
    /\ WatcherFrame
    /\ id \in watcher.destroyed
    /\ watcher' = [autoRestart(watcher) EXCEPT !.destroyed = @ \ {id}]

\* a restart timer fires
TimerFires ==
    /\ WatcherFrame
    /\ watcher.timers > 0
    /\ watcher.n < MaxStreams
    /\ watcher' = startContainerWatcher([watcher EXCEPT !.timers = @ - 1])

----------------------------------------------------------------------------
(* Passphrase files: withPassphraseFile *)

\* { mode: 0o600 }
PassphraseMode == 384

\* files: name -> [mode, content] under os.tmpdir(); calls: the calls of
\* withPassphraseFile in flight, each with its file and where it stands
NoTmp == [files |-> Empty, calls |-> Empty]

PassFrame ==
    /\ UNCHANGED limitVars
    /\ UNCHANGED flightVars
    /\ UNCHANGED <<token, storeDirs, payload, staterec, targetVars, dockerVars, watcher, since>>

\* the random file name and fs.writeFile(passphraseFile, password, { mode: 0o600 }).
\* write: "ok"; "partial", the file is created and the write fails; "refused",
\* the file cannot be created
PassWrite(id, pw, write) ==
    /\ PassFrame
    /\ id \notin DOMAIN tmp.calls
    /\ rnd < MaxSalts
    /\ rnd' = rnd + 1
    /\ UNCHANGED resp
    /\ LET file == rnd IN
       tmp' = [files |-> IF write = "refused" THEN tmp.files
                         ELSE Write(tmp.files, file,
                                    [mode |-> PassphraseMode,
                                     content |-> IF write = "ok" THEN pw ELSE ""]),
               calls |-> Write(tmp.calls, id,
                               [file |-> file,
                                pc |-> IF write = "ok" THEN "callback" ELSE "finally",
                                outcome |-> IF write = "ok" THEN "" ELSE "throws"])]

\* return await callback(passphraseFile)
PassCallback(id, fulfilled) ==
    /\ PassFrame
    /\ id \in DOMAIN tmp.calls
    /\ tmp.calls[id].pc = "callback"
    /\ UNCHANGED <<rnd, resp>>
    /\ tmp' = [tmp EXCEPT !.calls[id].pc = "finally",
                          !.calls[id].outcome = IF fulfilled THEN "returns" ELSE "throws"]

\* an unlink that removes nothing and reports no error
unlinkNothing(files, file, refused) == [files |-> files, code |-> ""]

\* fs.unlink(passphraseFile).  refused: the unlink of a file that exists fails
\* (EACCES, EPERM, EBUSY, EROFS)
unlink(files, file, refused) ==
    IF file \notin DOMAIN files THEN [files |-> files, code |-> "ENOENT"]
    ELSE IF refused THEN [files |-> files, code |-> "EACCES"]
    ELSE [files |-> Remove(files, {file}), code |-> ""]

\* finally: fs.unlink in its own try/catch, where an error is logged and
\* dropped; then the call returns what the callback returned or throws
PassFinally(id, refused) ==
    /\ PassFrame
    /\ id \in DOMAIN tmp.calls
    /\ tmp.calls[id].pc = "finally"
    /\ UNCHANGED rnd
    /\ LET call == tmp.calls[id]
           u    == unlink(tmp.files, call.file, refused)
       IN  /\ tmp' = [files |-> u.files, calls |-> Remove(tmp.calls, {id})]
           /\ resp' = [Resp("withPassphraseFile", 0) EXCEPT
                          !.body = [file |-> call.file, outcome |-> call.outcome,
                                    unlink |-> u.code]]

----------------------------------------------------------------------------
(* The store and the deployment engine, driven by one operator *)

Init ==
    /\ token = {encrypt(VALID_PASSWORD, Master, 0)}
    /\ rnd = 1
    /\ storeDirs = {}
    /\ payload = Empty
    /\ staterec = Empty
    /\ localDirs = {}
    /\ localFiles = Empty
    /\ sharedDirs = {}
    /\ sharedFiles = Empty
    /\ wrapper = FALSE
    /\ hasDeployedOnce = FALSE
    /\ watcher = NoWatcher
    /\ tmp = NoTmp
    /\ gate = Gate(Master)
    /\ job = Idle
    /\ runs = Empty
    /\ containers = {}
    /\ dockerNetworkCIDRs = {}
    /\ since = Fresh
    /\ resp = Resp("", 0)
    /\ rateLimitMap = Empty
    /\ now = 0
    /\ logins = {}
    /\ calls = NoCalls

Next ==
    \/ \E s \in Services, n \in Names, pw \in Passwords : CreateSecret(s, n, pw)
    \/ \E s \in Services, n \in Names, v \in Values, pw \in Passwords : BulkImport(s, n, v, pw)
    \/ \E s \in Services, n \in Names, v \in Values, pw \in Passwords : UpdateSecret(s, n, v, pw)
    \/ \E s \in Services, n \in Names, pw \in Passwords : DeleteSecret(s, n, pw)
    \/ \E s \in Services, n \in Names, n2 \in Names : RenameSecret(s, n, n2, Master)
    \/ \E s \in Services, n \in Names : ToggleMount(s, n)
    \/ \E pw \in Passwords \cup {""} : Deploy(pw)

Spec == Init /\ [][Next]_vars

----------------------------------------------------------------------------
(* Deploys in which per-secret filesystem operations fail *)

\* the secrets that meet a filesystem error in one run, each with the
\* operation that fails
FaultSets ==
    UNION {[T -> FaultKinds] : T \in {T \in SUBSET Tree : Cardinality(T) <= MaxFaults}}

DeployIO(pw) ==
    \E faults \in FaultSets : \E sched \in Schedules(Tree) : DeployAll(pw, faults, sched)

NextIO ==
    \/ \E s \in Services, n \in Names : CreateSecret(s, n, Master)
    \/ \E s \in Services : ToggleMount(s, <<"K">>)
    \/ DeployIO(Master)

SpecIO == Init /\ [][NextIO]_vars

----------------------------------------------------------------------------
(* A store with a secret whose name ends in ".md5" *)

NamesMd5 == {<<"K">>, <<"J", ".", "md5">>}

NextMd5 ==
    \/ \E s \in Services, n \in NamesMd5 : CreateSecret(s, n, Master)
    \/ \E s \in Services, n \in NamesMd5 : DeleteSecret(s, n, Master)
    \/ \E s \in Services, n \in NamesMd5 : ToggleMount(s, n)
    \/ Deploy(Master)

SpecMd5 == Init /\ [][NextMd5]_vars

----------------------------------------------------------------------------
(* Two services and a deploy request followed step by step *)

JoinServices == {<<"api">>, <<"db">>}

NextJoin ==
    \/ \E s \in JoinServices : CreateSecret(s, <<"K">>, Master)
    \/ \E s \in JoinServices : DeleteSecret(s, <<"K">>, Master)
    \/ DeployStart(Master)
    \/ \E k \in JoinServices \X {<<"K">>} : \E fault \in {"none", "readPayload"} : TaskSettle(k, fault)
    \/ \E s \in JoinServices : ServiceAggregate(s)
    \/ \E s \in JoinServices : ServiceMkdirFails(s)
    \/ JobEnds
    \/ WrapperAndMark
    \/ \E target \in {"shared", "local"} : SweepTarget(target)
    \/ Respond

SpecJoin == Init /\ [][NextJoin]_vars

----------------------------------------------------------------------------
(* The password gate from a data directory without a token *)

InitGate ==
    /\ token = {}
    /\ rnd = 0
    /\ storeDirs = {}
    /\ payload = Empty
    /\ staterec = Empty
    /\ localDirs = {}
    /\ localFiles = Empty
    /\ sharedDirs = {}
    /\ sharedFiles = Empty
    /\ wrapper = FALSE
    /\ hasDeployedOnce = FALSE
    /\ watcher = NoWatcher
    /\ tmp = NoTmp
    /\ containers = {}
    /\ dockerNetworkCIDRs = {}
    /\ gate = Gate("")
    /\ job = Idle
    /\ runs = Empty
    /\ since = Fresh
    /\ resp = Resp("", 0)
    /\ rateLimitMap = Empty
    /\ now = 0
    /\ logins = {}
    /\ calls = NoCalls

GatePasswords == Passwords \cup {"pw3"}

NextGate ==
    \/ \E pw \in GatePasswords \cup {""}, allowed \in BOOLEAN : SetupCheck(pw, allowed)
    \/ \E pw \in GatePasswords : SetupWrite(pw)
    \/ \E pw \in GatePasswords \cup {""}, allowed \in BOOLEAN : VerifyPassword(pw, allowed)

SpecGate == InitGate /\ [][NextGate]_vars

\* the same with a token file that can be damaged
NextGateIO ==
    \/ NextGate
    \/ DamageToken

SpecGateIO == InitGate /\ [][NextGateIO]_vars

----------------------------------------------------------------------------
(* The store and the deployment under the names the routes accept or refuse *)

ServicesAny == {<<"api">>, <<"-x">>}
NamesAny    == {<<"K">>, <<"K", ".", "md5">>, <<"-x">>}

NextNames ==
    \/ \E s \in ServicesAny, n \in NamesAny : CreateSecret(s, n, Master)
    \/ \E s \in ServicesAny \cup {<<"a", ".", "b">>} : CreateService(s)
    \/ \E s \in ServicesAny, n \in NamesAny, n2 \in NamesAny : RenameSecret(s, n, n2, Master)
    \/ Deploy(Master)

SpecNames == Init /\ [][NextNames]_vars

----------------------------------------------------------------------------
(* Container-facing API *)

\* An address is its four octets.
Loopback == <<127, 0, 0, 1>>
DockerSubnet == [range |-> <<172, 18, 0, 0>>, bits |-> 16]

RECURSIVE Pow2(_)
Pow2(n) == IF n = 0 THEN 1 ELSE 2 * Pow2(n - 1)

\* (ipNum & mask) === (rangeNum & mask), octet by octet: octet i carries the
\* mask bits 8(i-1)+1 .. 8i
ipInCIDR(ip, cidr) ==
    \A i \in 1..4 :
        LET keep == cidr.bits - 8 * (i - 1) IN
        IF keep >= 8 THEN ip[i] = cidr.range[i]
        ELSE IF keep <= 0 THEN TRUE
        ELSE ip[i] \div Pow2(8 - keep) = cidr.range[i] \div Pow2(8 - keep)

\* /^10\./, /^172\.(1[6-9]|2[0-9]|3[0-1])\./, /^192\.168\./
privateRanges(ip) ==
    \/ ip[1] = 10
    \/ ip[1] = 172 /\ ip[2] \in 16..31
    \/ ip[1] = 192 /\ ip[2] = 168

isLocalOrDockerNetwork(ip) ==
    \/ ip = Loopback
    \/ \E cidr \in dockerNetworkCIDRs : ipInCIDR(ip, cidr)
    \/ privateRanges(ip)

labelPrefix == <<"dss", ".">>
mountSuffix == <<".", "mount", ".">>

\* key.startsWith(p)
StartsWith(key, p) == Len(key) >= Len(p) /\ SubSeq(key, 1, Len(p)) = p

\* the places where p occurs in key, counted from 0 as indexOf counts
Occurrences(key, p) ==
    {i \in 0..(Len(key) - Len(p)) : SubSeq(key, i + 1, i + Len(p)) = p}

\* key.indexOf(p)
IndexOf(key, p) ==
    IF Occurrences(key, p) = {} THEN -1
    ELSE CHOOSE i \in Occurrences(key, p) : \A j \in Occurrences(key, p) : i <= j

\* the permission check of GET /:serviceName/:secretName
hasPermission(labels, serviceName, secretName) ==
    \E key \in labels :
        /\ StartsWith(key, labelPrefix)
        /\ IndexOf(key, mountSuffix) # -1
        /\ LET afterPrefix == SubSeq(key, Len(labelPrefix) + 1, Len(key))
               mountIndex  == IndexOf(afterPrefix, mountSuffix)
           IN  /\ mountIndex > 0
               /\ LET labelServiceName == SubSeq(afterPrefix, 1, mountIndex)
                      labelSecretName  == SubSeq(afterPrefix, mountIndex + Len(mountSuffix) + 1,
                                                 Len(afterPrefix))
                  IN  /\ labelServiceName = serviceName
                      /\ (labelSecretName = secretName \/ labelSecretName = <<"*">>)

\* The middleware of the router: the containers the daemon lists, inspected in
\* the order of the list until one has the address of the request.
lookup(order, ip) ==
    LET hits == {i \in DOMAIN order : order[i].ip = ip} IN
    IF hits = {}
    THEN [found |-> FALSE, labels |-> {}, dockerCalls |-> 1 + Len(order)]
    ELSE LET i == CHOOSE i \in hits : \A j \in hits : i <= j
         IN  [found |-> TRUE, labels |-> order[i].labels, dockerCalls |-> 1 + i]

\* path.join(CONTAINER_SECRETS_PATH, serviceName, secretName)
secretPath(s, n) == Normalize(Segments(s) \o Segments(n), 0, <<>>)

\* fs.readFile(secretPath, 'utf-8')
readDeployed(s, n) ==
    LET path == secretPath(s, n)
        at   == path.segs
    IN  IF path.up = 0 /\ Len(at) = 2 /\ <<at[1], at[2]>> \in DOMAIN localFiles
        THEN [code |-> "", content |-> localFiles[<<at[1], at[2]>>]]
        ELSE IF path.up = 0 /\ (Len(at) = 0 \/ (Len(at) = 1 /\ at[1] \in localDirs))
        THEN [code |-> "EISDIR", content |-> Text(<<>>)]
        ELSE IF path.up = 1 /\ Len(at) = 3 /\ at[1] = SharedDirName
                /\ <<at[2], at[3]>> \in DOMAIN sharedFiles
        THEN [code |-> "", content |-> sharedFiles[<<at[2], at[3]>>]]
        ELSE [code |-> "ENOENT", content |-> Text(<<>>)]

\* GET /api/services/:serviceName/:secretName from the address ip
FetchSecret(ip, s, n) ==
    /\ UNCHANGED limitVars
    /\ UNCHANGED flightVars
    /\ UNCHANGED <<storeVars, targetVars, dockerVars, hostVars, since>>
    /\ \E order \in Orders(containers) :
        LET who  == lookup(order, ip)
            base == [Resp("fetch", 403) EXCEPT
                     !.key = <<s, n>>, !.ip = ip, !.dockerCalls = who.dockerCalls,
                     !.requester = [found |-> who.found, labels |-> who.labels]]
            file == readDeployed(s, n)
        IN  resp' = IF ~who.found \/ ~hasPermission(who.labels, s, n) THEN base
                    ELSE IF file.code = "" THEN [base EXCEPT !.status = 200, !.body = file.content]
                    ELSE IF file.code = "ENOENT" THEN [base EXCEPT !.status = 404]
                    ELSE [base EXCEPT !.status = 500]

\* the mount rules of GET /: every label key dss.<service>.mount.<secret>, cut
\* at the first ".mount."
serviceRules(labels) ==
    {[key |-> key,
      serviceName |-> SubSeq(SubSeq(key, Len(labelPrefix) + 1, Len(key)), 1,
                             IndexOf(SubSeq(key, Len(labelPrefix) + 1, Len(key)), mountSuffix)),
      secretName |-> SubSeq(SubSeq(key, Len(labelPrefix) + 1, Len(key)),
                            IndexOf(SubSeq(key, Len(labelPrefix) + 1, Len(key)), mountSuffix)
                               + Len(mountSuffix) + 1,
                            Len(key) - Len(labelPrefix))] :
        key \in {x \in labels :
                    /\ StartsWith(x, labelPrefix)
                    /\ IndexOf(x, mountSuffix) # -1
                    /\ IndexOf(SubSeq(x, Len(labelPrefix) + 1, Len(x)), mountSuffix) > 0}}

\* the lines of the manifest: a fetch line carries the rule it comes from (its
\* file path is the value of that label) and the service and secret of its URL
manifest(labels) ==
    LET rules == serviceRules(labels)
        secretsOf(s) == {k[2] : k \in {x \in Tree : x[1] = s}}
        missing == {r.serviceName : r \in {x \in rules : secretsOf(x.serviceName) = {}}}
        live == {r \in rules : r.serviceName \notin missing}
    IN  {[kind |-> "warning", rule |-> <<>>, service |-> s, secret |-> <<>>] : s \in missing}
        \cup UNION {IF r.secretName = <<"*">>
                    THEN {[kind |-> "fetch", rule |-> r.key, service |-> r.serviceName,
                           secret |-> n] : n \in secretsOf(r.serviceName)}
                    ELSE IF r.secretName \in secretsOf(r.serviceName)
                    THEN {[kind |-> "fetch", rule |-> r.key, service |-> r.serviceName,
                           secret |-> r.secretName]}
                    ELSE {[kind |-> "warning", rule |-> r.key, service |-> r.serviceName,
                           secret |-> r.secretName]} : r \in live}

\* GET /api/services/ from the address ip
ListAvailable(ip) ==
    /\ UNCHANGED limitVars
    /\ UNCHANGED flightVars
    /\ UNCHANGED <<storeVars, targetVars, dockerVars, hostVars, since>>
    /\ \E order \in Orders(containers) :
        LET who  == lookup(order, ip)
            base == [Resp("list", 403) EXCEPT
                     !.ip = ip, !.dockerCalls = who.dockerCalls,
                     !.requester = [found |-> who.found, labels |-> who.labels]]
        IN  resp' = IF ~who.found THEN base
                    ELSE IF serviceRules(who.labels) = {}
                    THEN [base EXCEPT !.status = 200,
                                      !.body = [lines |-> {[kind |-> "none", rule |-> <<>>,
                                                            service |-> <<>>, secret |-> <<>>]}]]
                    ELSE [base EXCEPT !.status = 200,
                                      !.body = [lines |-> manifest(who.labels)]]

\* GET /api/container/:containerName/info from the address ip; what the
\* daemon's error message reads for a container it does not know is the
\* daemon's choice, and decides between 404 and 500
ContainerInfo(ip, name) ==
    /\ UNCHANGED limitVars
    /\ UNCHANGED flightVars
    /\ UNCHANGED <<storeVars, targetVars, dockerVars, hostVars, since>>
    /\ LET base == [Resp("info", 403) EXCEPT !.ip = ip] IN
       IF ~isLocalOrDockerNetwork(ip)
       THEN resp' = base
       ELSE IF \E c \in containers : c.name = name
       THEN resp' = [base EXCEPT !.status = 200, !.dockerCalls = 2]
       ELSE \E status \in {404, 500} :
                resp' = [base EXCEPT !.status = status, !.dockerCalls = 1]

\* the Docker daemon: a container starts, a container stops
StartContainer(c) ==
    /\ UNCHANGED limitVars
    /\ UNCHANGED flightVars
    /\ Cardinality(containers) < MaxContainers
    /\ \A d \in containers : d.name # c.name
    /\ containers' = containers \cup {c}
    /\ UNCHANGED <<storeVars, targetVars, dockerNetworkCIDRs, hostVars, since, resp>>

StopContainer(c) ==
    /\ UNCHANGED limitVars
    /\ UNCHANGED flightVars
    /\ c \in containers
    /\ containers' = containers \ {c}
    /\ UNCHANGED <<storeVars, targetVars, dockerNetworkCIDRs, hostVars, since, resp>>

ApiServices == {<<"api">>, <<"a", ".", "mount", ".", "b">>}
ReqServices == ApiServices \cup {<<"db">>}
ReqNames    == {<<"K">>, <<"J">>, <<".">>}
SourceIPs   == {Loopback, <<172, 18, 0, 2>>, <<10, 1, 2, 3>>, <<8, 8, 8, 8>>}
LabelKey(s, n) == labelPrefix \o s \o mountSuffix \o n
LabelSets ==
    {{LabelKey(<<"api">>, <<"K">>)},
     {LabelKey(<<"api">>, <<"*">>)},
     {LabelKey(<<"a", ".", "mount", ".", "b">>, <<"K">>)}}
Containers ==
    [name : {"web"}, ip : {<<172, 18, 0, 2>>}, labels : LabelSets]

\* discoverDockerNetworks ran at startup: it found the subnet or it failed
InitApi ==
    /\ token = {encrypt(VALID_PASSWORD, Master, 0)}
    /\ rnd = 1
    /\ storeDirs = {}
    /\ payload = Empty
    /\ staterec = Empty
    /\ localDirs = {}
    /\ localFiles = Empty
    /\ sharedDirs = {}
    /\ sharedFiles = Empty
    /\ wrapper = FALSE
    /\ hasDeployedOnce = FALSE
    /\ watcher = NoWatcher
    /\ tmp = NoTmp
    /\ gate = Gate(Master)
    /\ job = Idle
    /\ runs = Empty
    /\ containers = {}
    /\ dockerNetworkCIDRs \in {{}, {DockerSubnet}}
    /\ since = Fresh
    /\ resp = Resp("", 0)
    /\ rateLimitMap = Empty
    /\ now = 0
    /\ logins = {}
    /\ calls = NoCalls

NextApi ==
    \/ \E s \in ApiServices : CreateSecret(s, <<"K">>, Master)
    \/ \E s \in ApiServices, v \in Values : UpdateSecret(s, <<"K">>, v, Master)
    \/ Deploy(Master)
    \/ \E c \in Containers : StartContainer(c)
    \/ \E c \in Containers : StopContainer(c)
    \/ \E ip \in SourceIPs, s \in ReqServices, n \in ReqNames : FetchSecret(ip, s, n)
    \/ \E ip \in SourceIPs : ContainerInfo(ip, "web")

SpecApi == InitApi /\ [][NextApi]_vars

----------------------------------------------------------------------------
(* Secrets of one service that are mounted, renamed and deployed *)

NamesRename == {<<"K">>, <<"K", ".", "md5">>}

NextRename ==
    \/ \E s \in Services, n \in NamesRename : CreateSecret(s, n, Master)
    \/ \E s \in Services, n \in NamesRename : ToggleMount(s, n)
    \/ \E s \in Services, n \in NamesRename, n2 \in NamesRename : RenameSecret(s, n, n2, Master)
    \/ Deploy(Master)

SpecRename == Init /\ [][NextRename]_vars

----------------------------------------------------------------------------
(* Services that are renamed and deleted, and a container that fetches *)

TwoServices == {<<"api">>, <<"db">>}
Web == [name |-> "web", ip |-> <<172, 18, 0, 2>>, labels |-> {LabelKey(<<"api">>, <<"*">>)}]

NextServices ==
    \/ \E s \in TwoServices : CreateSecret(s, <<"K">>, Master)
    \/ \E s \in TwoServices : ToggleMount(s, <<"K">>)
    \/ \E s \in TwoServices, s2 \in TwoServices : RenameService(s, s2, Master)
    \/ \E s \in TwoServices : DeleteService(s, Master)
    \/ Deploy(Master)
    \/ StartContainer(Web)
    \/ FetchSecret(Web.ip, <<"api">>, <<"K">>)

SpecServices == Init /\ [][NextServices]_vars

----------------------------------------------------------------------------
(* A container with a grant for one service that asks for names with ".."    *)
(* and "/" in them                                                           *)

Up == <<".", ".", "/">>
FetchNames ==
    {<<"K">>, <<"K", ".", "md5">>, Up \o <<"db", "/", "K">>,
     Up \o Up \o SharedDirName \o <<"/", "db", "/", "K">>}

NextFetch ==
    \/ \E s \in TwoServices : CreateSecret(s, <<"K">>, Master)
    \/ \E s \in TwoServices : ToggleMount(s, <<"K">>)
    \/ Deploy(Master)
    \/ StartContainer(Web)
    \/ StopContainer(Web)
    \/ \E s \in TwoServices, n \in FetchNames : FetchSecret(Web.ip, s, n)

SpecFetch == Init /\ [][NextFetch]_vars

----------------------------------------------------------------------------
(* Containers that ask for their manifest *)

ListNames == {<<"K">>, <<"J">>}
ListLabelSets ==
    {{LabelKey(<<"api">>, <<"K">>), LabelKey(<<"api">>, <<"J">>)},
     {LabelKey(<<"api">>, <<"*">>), LabelKey(<<"db">>, <<"K">>)},
     {LabelKey(<<"a", ".", "mount", ".", "b">>, <<"K">>)},
     {<<"com", ".", "example">>}}
ListContainers == [name : {"web"}, ip : {<<172, 18, 0, 2>>}, labels : ListLabelSets]

NextList ==
    \/ \E s \in ApiServices, n \in ListNames : CreateSecret(s, n, Master)
    \/ \E s \in ApiServices, n \in ListNames : DeleteSecret(s, n, Master)
    \/ \E c \in ListContainers : StartContainer(c)
    \/ \E c \in ListContainers : StopContainer(c)
    \/ \E ip \in {<<172, 18, 0, 2>>, <<10, 1, 2, 3>>} : ListAvailable(ip)

SpecList == InitApi /\ [][NextList]_vars

----------------------------------------------------------------------------
(* The middleware of the container-facing router, with the address of the    *)
(* request as text, the X-Forwarded-For header and failing Docker calls      *)

\* an address as text: "::ffff:" or another prefix before a dotted quad
Addr(prefix, v4) == [prefix |-> prefix, v4 |-> v4]

\* req.ip: the address of the socket, or under 'trust proxy' = 1 the last
\* address of the X-Forwarded-For header when the request carries one
reqIp(req, trustProxy) ==
    IF trustProxy /\ req.forwardedFor # <<>>
    THEN req.forwardedFor[Len(req.forwardedFor)]
    ELSE req.remoteAddress

\* requestIp.replace(/^::ffff:/, '')
normalizedIp(requestIp) ==
    IF requestIp.prefix = "::ffff:" THEN [requestIp EXCEPT !.prefix = ""] ELSE requestIp

\* the middleware: call 1 lists the running containers, call 1 + i inspects
\* the i-th of them, until one has the address on one of its networks.
\* fail: the number of the Docker call that fails, 0 for none.
resolveRequester(order, requestIp, fail) ==
    LET ip    == normalizedIp(requestIp)
        hits  == {i \in DOMAIN order : ip \in order[i].networks}
        first == IF hits = {} THEN Len(order)
                 ELSE CHOOSE i \in hits : \A j \in hits : i <= j
    IN  IF fail # 0 /\ fail <= 1 + first
        THEN [found |-> FALSE, failed |-> TRUE, name |-> "", labels |-> {},
              error |-> "Forbidden: Unable to verify container"]
        ELSE IF hits = {}
        THEN [found |-> FALSE, failed |-> FALSE, name |-> "", labels |-> {},
              error |-> "Forbidden: Container not found for requesting IP"]
        ELSE [found |-> TRUE, failed |-> FALSE, name |-> order[first].name,
              labels |-> order[first].labels, error |-> ""]

\* GET /api/services/:serviceName/:secretName: the middleware, then the route
ApiFetch(req, trustProxy, s, n, fail) ==
    /\ UNCHANGED limitVars
    /\ UNCHANGED flightVars
    /\ UNCHANGED <<storeVars, targetVars, dockerVars, hostVars, since>>
    /\ \E order \in Orders(containers) :
        LET who  == resolveRequester(order, reqIp(req, trustProxy), fail)
            base == [Resp("api", 403) EXCEPT
                     !.key = <<s, n>>, !.ip = req.remoteAddress, !.message = who.error,
                     !.requester = [found |-> who.found, failed |-> who.failed,
                                    name |-> who.name, labels |-> who.labels]]
            file == readDeployed(s, n)
        IN  resp' = IF ~who.found \/ ~hasPermission(who.labels, s, n) THEN base
                    ELSE IF file.code = "" THEN [base EXCEPT !.status = 200, !.body = file.content]
                    ELSE IF file.code = "ENOENT" THEN [base EXCEPT !.status = 404]
                    ELSE [base EXCEPT !.status = 500]

WebAddr   == Addr("", <<172, 18, 0, 2>>)
OtherAddr == Addr("", <<172, 18, 0, 3>>)
ResolveContainers ==
    {[name |-> "web", networks |-> {WebAddr, Addr("", <<10, 1, 0, 2>>)},
      labels |-> {LabelKey(<<"api">>, <<"K">>)}],
     [name |-> "job", networks |-> {Addr("", <<10, 1, 0, 7>>)},
      labels |-> {LabelKey(<<"api">>, <<"J">>)}]}
Requests ==
    [remoteAddress : {WebAddr, Addr("::ffff:", <<172, 18, 0, 2>>), Addr("", <<10, 1, 0, 2>>),
                      OtherAddr, Addr("fd00::", <<172, 18, 0, 2>>)},
     forwardedFor  : {<<>>, <<WebAddr>>}]

NextResolve ==
    \/ CreateSecret(<<"api">>, <<"K">>, Master)
    \/ Deploy(Master)
    \/ \E c \in ResolveContainers : StartContainer(c)
    \/ \E c \in ResolveContainers : StopContainer(c)
    \/ \E req \in Requests, trustProxy \in BOOLEAN, n \in Names, fail \in 0..(1 + MaxContainers) :
           ApiFetch(req, trustProxy, <<"api">>, n, fail)

SpecResolve == InitApi /\ [][NextResolve]_vars

----------------------------------------------------------------------------
(* Logins from two client addresses while the clock runs *)

Clients == {"10.0.0.1", "10.0.0.2"}

NextLimit ==
    \/ \E ip \in Clients, pw \in Passwords : VerifyBegin(ip, pw)
    \/ \E req \in logins : VerifyEnd(req)
    \/ Tick

SpecLimit == Init /\ [][NextLimit]_vars

\* the same with wrong passwords only: no login succeeds, no entry is deleted
NextLimitNoReset ==
    \/ \E ip \in Clients, pw \in (Passwords \ {Master}) \cup {""} : VerifyBegin(ip, pw)
    \/ \E req \in logins : VerifyEnd(req)
    \/ Tick

SpecLimitNoReset == Init /\ [][NextLimitNoReset]_vars

----------------------------------------------------------------------------
(* Secrets that are written and read back: plaintexts with and without       *)
(* surrogate pairs, and payload files that lose their tail or have bits      *)
(* flipped                                                                   *)

Plaintexts == {<<"v", "1">>, <<HighSurrogate, LowSurrogate>>, <<"v", HighSurrogate>>, <<>>}

\* the payload file of a secret is cut short or has bits flipped
DamagePayload(k) ==
    /\ UNCHANGED limitVars
    /\ k \in DOMAIN payload
    /\ payload[k] \notin {Truncated, Corrupt(payload[k])}
    /\ UNCHANGED <<token, storeDirs, staterec, rnd, targetVars, dockerVars, hostVars, flightVars, since, resp>>
    /\ \E b \in {Truncated, Corrupt(payload[k])} : payload' = Write(payload, k, b)

NextRead ==
    \/ \E n \in Names, v \in Plaintexts, pw \in Passwords \cup {""} :
           UpdateSecret(<<"api">>, n, v, pw)
    \/ \E n \in Names, pw \in Passwords \cup {""} : ReadSecret(<<"api">>, n, pw)

SpecRead == Init /\ [][NextRead]_vars

NextDamage ==
    \/ NextRead
    \/ \E n \in Names : DamagePayload(<<<<"api">>, n>>)

SpecDamage == Init /\ [][NextDamage]_vars

----------------------------------------------------------------------------
(* Overlapping POST /deploy requests for a store that holds a secret, each  *)
(* per-secret task await by await                                          *)

RunIds == {1, 2}

Settled == {"skipped", "deployed", "updated", "rejected"}

\* a per-secret task that has not run yet: its locals
NewTask ==
    [pc |-> "state", state |-> defaultState, secretHash |-> calculateMD5(Truncated),
     currentHash |-> [secret |-> calculateMD5(Truncated), state |-> calculateMD5(defaultState)],
     wasDeployed |-> FALSE, decrypted |-> <<>>, writeOps |-> {}]

SetTask(r, k, task) == runs' = [runs EXCEPT ![r].tasks[k] = task]

\* the handler up to services.map: the password check, the mkdirs and the tree
RunStart(r, pw) ==
    /\ UNCHANGED limitVars
    /\ r \notin DOMAIN runs
    /\ UNCHANGED <<storeVars, dockerVars, hostVars, gate, job, localFiles, sharedFiles, wrapper,
                   hasDeployedOnce, since>>
    /\ IF pw = "" \/ ~validatePassword(pw).success
       THEN /\ UNCHANGED <<localDirs, sharedDirs, runs>>
            /\ resp' = Resp("deploy", 401)
       ELSE /\ localDirs' = localDirs \cup storeDirs
            /\ sharedDirs' = sharedDirs \cup storeDirs
            /\ runs' = Write(runs, r, [pw |-> pw, valid |-> {},
                                       tasks |-> [k \in Tree |-> NewTask]])
            /\ UNCHANGED resp

\* the step of a task leaves everything but the run and the targets alone
TaskFrame(r, k, pc) ==
    /\ UNCHANGED limitVars
    /\ r \in DOMAIN runs
    /\ k \in DOMAIN runs[r].tasks
    /\ runs[r].tasks[k].pc = pc
    /\ UNCHANGED <<storeVars, dockerVars, hostVars, gate, job, localDirs, sharedDirs, wrapper,
                   hasDeployedOnce, since, resp>>

\* await readSecretState, then validSecrets.add
TaskReadState(r, k) ==
    /\ TaskFrame(r, k, "state")
    /\ UNCHANGED <<localFiles, sharedFiles>>
    /\ runs' = [runs EXCEPT ![r].valid = @ \cup {k},
                            ![r].tasks[k].state = readSecretState(k),
                            ![r].tasks[k].pc = "secretHash"]

\* await calculateMD5(secretPath)
TaskSecretHash(r, k) ==
    /\ TaskFrame(r, k, "secretHash")
    /\ UNCHANGED <<localFiles, sharedFiles>>
    /\ LET t == runs[r].tasks[k] IN
       IF k \notin DOMAIN payload
       THEN SetTask(r, k, [t EXCEPT !.pc = "rejected"])
       ELSE SetTask(r, k, [t EXCEPT !.pc = "stateHash", !.secretHash = calculateMD5(payload[k])])

\* await calculateMD5(statePath), and the combined fingerprint
TaskStateHash(r, k) ==
    /\ TaskFrame(r, k, "stateHash")
    /\ UNCHANGED <<localFiles, sharedFiles>>
    /\ LET t == runs[r].tasks[k] IN
       IF k \notin DOMAIN staterec
       THEN SetTask(r, k, [t EXCEPT !.pc = "rejected"])
       ELSE SetTask(r, k, [t EXCEPT !.pc = "existingHash",
                                    !.currentHash = [secret |-> t.secretHash,
                                                     state |-> calculateMD5(staterec[k])]])

\* the read of the container-local fingerprint file and the comparison
TaskExistingHash(r, k) ==
    /\ TaskFrame(r, k, "existingHash")
    /\ UNCHANGED <<localFiles, sharedFiles>>
    /\ LET t == runs[r].tasks[k]
           md5Path == <<k[1], Md5Name(k[2])>>
           wasDeployed == md5Path \in DOMAIN localFiles
       IN  IF wasDeployed /\ localFiles[md5Path] = t.currentHash
           THEN SetTask(r, k, [t EXCEPT !.pc = "skipped"])
           ELSE SetTask(r, k, [t EXCEPT !.pc = "decrypt", !.wasDeployed = wasDeployed])

\* await decryptSecret, then the writeFile calls are issued together
TaskDecrypt(r, k) ==
    /\ TaskFrame(r, k, "decrypt")
    /\ UNCHANGED <<localFiles, sharedFiles>>
    /\ LET t == runs[r].tasks[k] IN
       IF k \notin DOMAIN payload \/ ~decrypt(payload[k], runs[r].pw).ok
       THEN SetTask(r, k, [t EXCEPT !.pc = "rejected"])
       ELSE SetTask(r, k, [t EXCEPT !.pc = "write",
                                    !.decrypted = decrypt(payload[k], runs[r].pw).pt,
                                    !.writeOps = {"containerFile", "containerMd5"} \cup
                                                 IF t.state.mounted
                                                 THEN {"sharedFile", "sharedMd5"} ELSE {}])

\* one of the writeFile calls of Promise.all(writeOps) completes
TaskWrite(r, k, op) ==
    /\ TaskFrame(r, k, "write")
    /\ op \in runs[r].tasks[k].writeOps
    /\ LET t == runs[r].tasks[k]
           md5Path == <<k[1], Md5Name(k[2])>>
           left == t.writeOps \ {op}
       IN  /\ localFiles' = IF op = "containerFile" THEN Write(localFiles, k, Text(t.decrypted))
                            ELSE IF op = "containerMd5"
                            THEN Write(localFiles, md5Path, t.currentHash)
                            ELSE localFiles
           /\ sharedFiles' = IF op = "sharedFile" THEN Write(sharedFiles, k, Text(t.decrypted))
                             ELSE IF op = "sharedMd5"
                             THEN Write(sharedFiles, md5Path, t.currentHash)
                             ELSE sharedFiles
           /\ SetTask(r, k, [t EXCEPT !.writeOps = left,
                                      !.pc = IF left # {} THEN "write"
                                             ELSE IF t.wasDeployed THEN "updated"
                                             ELSE "deployed"])

\* every task has settled: the aggregation, the wrapper, markDeploymentOccurred,
\* the two cleanups and the summary
RunEnd(r) ==
    /\ UNCHANGED limitVars
    /\ r \in DOMAIN runs
    /\ \A k \in DOMAIN runs[r].tasks : runs[r].tasks[k].pc \in Settled
    /\ UNCHANGED <<storeVars, dockerVars, hostVars, gate, job, localDirs, sharedDirs, since>>
    /\ LET results == [k \in DOMAIN runs[r].tasks |->
                          [status |-> runs[r].tasks[k].pc, reason |-> ""]]
           swL == Sweep(localFiles, runs[r].valid)
           swS == Sweep(sharedFiles, runs[r].valid)
       IN  /\ localFiles' = swL.files
           /\ sharedFiles' = swS.files
           /\ wrapper' = TRUE
           /\ hasDeployedOnce' = TRUE
           /\ resp' = [Resp("deploy", 200) EXCEPT
                          !.results = results,
                          !.stats = [deployed |-> Count(results, "deployed"),
                                     updated |-> Count(results, "updated"),
                                     skipped |-> Count(results, "skipped"),
                                     deleted |-> swL.deleted + swS.deleted]]
           /\ runs' = Remove(runs, {r})

NextOverlap ==
    \/ CreateSecret(<<"api">>, <<"K">>, Master)
    \/ \E v \in Values : UpdateSecret(<<"api">>, <<"K">>, v, Master)
    \/ \E r \in RunIds : Tree # {} /\ RunStart(r, Master)
    \/ \E r \in RunIds, k \in Tree : TaskReadState(r, k)
    \/ \E r \in RunIds, k \in Tree : TaskSecretHash(r, k)
    \/ \E r \in RunIds, k \in Tree : TaskStateHash(r, k)
    \/ \E r \in RunIds, k \in Tree : TaskExistingHash(r, k)
    \/ \E r \in RunIds, k \in Tree : TaskDecrypt(r, k)
    \/ \E r \in RunIds, k \in Tree, op \in {"containerFile", "containerMd5", "sharedFile", "sharedMd5"} :
          TaskWrite(r, k, op)
    \/ \E r \in RunIds : RunEnd(r)

SpecOverlap == Init /\ [][NextOverlap]_vars

----------------------------------------------------------------------------
(* Deploy requests before and after the first-time setup, with and without *)
(* a password the token validates                                          *)

NextDeployGate ==
    \/ \E pw \in Passwords : SetupCheck(pw, TRUE)
    \/ \E pw \in Passwords : SetupWrite(pw)
    \/ \E n \in Names : CreateSecret(<<"api">>, n, Master)
    \/ ToggleMount(<<"api">>, <<"K">>)
    \/ DamageToken
    \/ \E pw \in Passwords \cup {""} : Deploy(pw)

SpecDeployGate == InitGate /\ [][NextDeployGate]_vars

----------------------------------------------------------------------------
(* One client address that logs in with a wrong password until it is       *)
(* blocked, and that sends requests to the routes that take the password   *)
(* in the x-user-password header                                           *)

Client == "10.0.0.1"

NextBlocked ==
    \/ \E pw \in Passwords : VerifyBegin(Client, pw)
    \/ \E req \in logins : VerifyEnd(req)
    \/ CreateSecret(<<"api">>, <<"K">>, Master)
    \/ \E pw \in Passwords : DeleteSecret(<<"api">>, <<"K">>, pw)
    \/ \E pw \in Passwords : Deploy(pw)

SpecBlocked == Init /\ [][NextBlocked]_vars

----------------------------------------------------------------------------
(* Updates and toggles of deployed secrets of two services, under names     *)
(* with ".." and "/" in them                                                *)

FrameNames ==
    {<<"K">>, Up \o <<"db", "/", "K">>, Up \o Up \o LocalDirName \o <<"/", "api", "/", "K">>}

NextFrame ==
    \/ \E s \in TwoServices : CreateSecret(s, <<"K">>, Master)
    \/ Deploy(Master)
    \/ \E n \in FrameNames, v \in Values : UpdateSecret(<<"api">>, n, v, Master)
    \/ \E n \in FrameNames : ToggleMount(<<"api">>, n)

SpecFrame == Init /\ [][NextFrame]_vars

----------------------------------------------------------------------------
(* The container watcher, started and stopped while streams end and fail *)

NextWatcher ==
    \/ StartWatcher
    \/ \E raises \in BOOLEAN : StopWatcher(raises)
    \/ \E id \in 1..MaxStreams : StreamEnds(id)
    \/ \E id \in 1..MaxStreams : DestroyError(id)
    \/ TimerFires

SpecWatcher == Init /\ [][NextWatcher]_vars

----------------------------------------------------------------------------
(* Calls of withPassphraseFile, two at a time, whose write, callback and    *)
(* unlink succeed or fail                                                   *)

PassCalls == {1, 2}

NextPass ==
    \/ \E id \in PassCalls, pw \in Passwords, write \in {"ok", "partial", "refused"} :
          PassWrite(id, pw, write)
    \/ \E id \in PassCalls, fulfilled \in BOOLEAN : PassCallback(id, fulfilled)
    \/ \E id \in PassCalls, refused \in BOOLEAN : PassFinally(id, refused)

SpecPass == Init /\ [][NextPass]_vars

----------------------------------------------------------------------------
(* Claims *)

\* the state right after a POST /deploy that returned its success summary
JustDeployed == resp.op = "deploy" /\ resp.status = 200 /\ since = Clean

FilesOf(k) == {k, <<k[1], Md5Name(k[2])>>}

\* C1: a deploy right after a completed deploy, with no store mutation in
\* between, reports deployed = updated = deleted = 0 and skipped = the number
\* of secrets in the tree, and changes no file of either target.
C1_IdempotentDeploy ==
    (JustDeployed /\ resp.prior = Clean) =>
        /\ resp.stats.deployed = 0
        /\ resp.stats.updated = 0
        /\ resp.stats.deleted = 0
        /\ resp.stats.skipped = Cardinality(Tree)
        /\ resp.wrote = {} /\ resp.unlinked = {}
        /\ localFiles = resp.before.local
        /\ sharedFiles = resp.before.shared

\* C2: for a secret deployed at the container-local target, one toggle of its
\* mounted flag followed by a deploy puts its plaintext at the shared target
\* when the flag became true, and removes it from the shared target, keeping
\* it at the container-local target, when the flag became false.
C2_MountFlagPropagation ==
    (/\ JustDeployed
     /\ resp.prior.deployed /\ resp.prior.n = 1 /\ resp.prior.op = "toggle"
     /\ resp.prior.key \in Tree
     /\ resp.prior.key \in DOMAIN resp.before.local) =>
        LET k == resp.prior.key IN
        IF readSecretState(k).mounted
        THEN k \in DOMAIN sharedFiles /\ sharedFiles[k] = Text(toString(payload[k].pt))
        ELSE k \notin DOMAIN sharedFiles /\ k \in DOMAIN localFiles

\* C3: after a completed deploy, the deletion of one deployed secret followed
\* by a deploy reports deleted >= 1, and leaves neither the plaintext nor the
\* fingerprint of that secret at either target.
C3_OrphanSweep ==
    (/\ JustDeployed
     /\ resp.prior.deployed /\ resp.prior.n = 1 /\ resp.prior.op = "delete"
     /\ resp.prior.key \in DOMAIN resp.before.local) =>
        /\ resp.stats.deleted >= 1
        /\ FilesOf(resp.prior.key) \cap (DOMAIN localFiles \cup DOMAIN sharedFiles) = {}

\* C4: after a completed deploy, one update of the value of one secret of the
\* tree followed by a deploy reports updated = 1, skipped = N - 1 and
\* deployed = 0, and rewrites only the files of that secret.
C4_IncrementalDeploy ==
    (/\ JustDeployed
     /\ resp.prior.deployed /\ resp.prior.n = 1 /\ resp.prior.op = "update") =>
        /\ resp.stats.updated = 1
        /\ resp.stats.skipped = Cardinality(Tree) - 1
        /\ resp.stats.deployed = 0
        /\ \A w \in resp.wrote \cup resp.unlinked : w[2] \in FilesOf(resp.prior.key)

\* C5: right after a deploy that returned its success summary, every secret of
\* the store tree has its decrypted current value at the container-local target.
C5_LocalCompleteness ==
    JustDeployed =>
        \A k \in Tree : k \in DOMAIN localFiles /\ localFiles[k] = Text(toString(payload[k].pt))

\* C6: a fetch of (service, secretName) by an identified container is
\* authorized exactly when the labels of the container have the key
\* dss.<service>.mount.<secretName> or the key dss.<service>.mount.*
C6_AuthorizationByLabels ==
    (resp.op = "fetch" /\ resp.requester.found) =>
        (resp.status # 403 <=>
            \/ LabelKey(resp.key[1], resp.key[2]) \in resp.requester.labels
            \/ LabelKey(resp.key[1], <<"*">>) \in resp.requester.labels)

\* the address is neither loopback nor in a discovered Docker subnet
OutsideOrigin(ip) ==
    ip # Loopback /\ \A cidr \in dockerNetworkCIDRs : ~ipInCIDR(ip, cidr)

\* C7: a request to the container-facing surface from an address outside
\* loopback and outside the discovered Docker subnets is answered Forbidden,
\* with no Docker API call made for it.
C7_NetworkOrigin ==
    (resp.op \in {"fetch", "info"} /\ OutsideOrigin(resp.ip)) =>
        resp.status = 403 /\ resp.dockerCalls = 0

\* C8: a deploy in which the decryption of some secret failed answers with the
\* invalid-password error, not with the success summary.
C8_DecryptFailureAborts ==
    (resp.op = "deploy" /\ \E k \in DOMAIN resp.results : resp.results[k].reason = "decrypt")
        => resp.status = 401

\* the secrets of the last deploy whose task was rejected
Failed == {k \in DOMAIN resp.results : resp.results[k].status = "rejected"}

C10_FetchServesDeployed ==
    (resp.op = "fetch" /\ resp.requester.found) =>
        IF hasPermission(resp.requester.labels, resp.key[1], resp.key[2])
        THEN /\ resp.status \in {200, 404}
             /\ resp.status = 404 <=> resp.key \notin DOMAIN localFiles
             /\ resp.status = 200 => resp.body = localFiles[resp.key]
        ELSE resp.status = 403

\* C11: whenever the fingerprint file of a secret at the container-local
\* target holds the current fingerprint of the secret, the plaintext file of
\* the secret is there and holds the decryption of the current payload.
C11_FingerprintAuthoritative ==
    \A k \in Tree :
        LET md5Path == <<k[1], Md5Name(k[2])>> IN
        (/\ k \in DOMAIN staterec
         /\ md5Path \in DOMAIN localFiles
         /\ localFiles[md5Path] = currentHash(k)) =>
            /\ k \in DOMAIN localFiles
            /\ decrypt(payload[k], Master).ok
            /\ localFiles[k] = Text(decrypt(payload[k], Master).pt)

\* C12: after a completed deploy, one toggle of the mounted flag of a deployed
\* secret changes the fingerprint of the secret, and the next deploy does not
\* skip the secret but reports it as updated.
C12_FingerprintSensitivity ==
    (/\ JustDeployed
     /\ resp.prior.deployed /\ resp.prior.n = 1 /\ resp.prior.op = "toggle"
     /\ resp.prior.key \in Tree
     /\ resp.prior.key \in DOMAIN resp.before.local) =>
        LET k == resp.prior.key IN
        /\ calculateMD5(readSecretState(k)) # calculateMD5(toggleSecretMounted(k))
        /\ resp.results[k].status = "updated"

\* C13: in every deploy, two distinct per-secret tasks whose secret names pass
\* the name validation write disjoint sets of paths (plaintext and fingerprint
\* file, the same relative paths in each target).
C13_DisjointFiles ==
    resp.op = "deploy" =>
        \A a \in DOMAIN resp.results, b \in DOMAIN resp.results :
            (a # b /\ secretNameRegex(a[2]) /\ secretNameRegex(b[2])) =>
                FilesOf(a) \cap FilesOf(b) = {}

\* C20: a create request whose service name or secret name does not match
\* [A-Za-z0-9_][A-Za-z0-9._-]* is refused and writes nothing: a secret whose
\* creation is the one store mutation so far has two matching names, and a
\* create-service request that succeeded carried a matching name.
C20_NameValidationBeforeIO ==
    /\ (since.n = 1 /\ since.op = "create") =>
           secretNameRegex(since.key[1]) /\ secretNameRegex(since.key[2])
    /\ (resp.op = "create-service" /\ resp.status = 200) => secretNameRegex(resp.key[1])
\* the secret a deployed file belongs to: K for the plaintext K and for the
\* fingerprint K.md5
OwnerOf(p) ==
    IF EndsWithMd5(p[2]) THEN <<p[1], SubSeq(p[2], 1, Len(p[2]) - 2)>> ELSE p

\* C14: the sweep of a deploy unlinks a file of a target only if the file is no
\* plaintext of a secret of the store tree of that run and the secret it belongs
\* to is not in that tree; a stored secret whose task failed keeps its files.
C14_SweepOnlyOrphans ==
    (resp.op = "deploy" /\ resp.status = 200) =>
        \A u \in resp.unlinked : u[2] \notin Tree /\ OwnerOf(u[2]) \notin Tree
\* C18: in every state the store requests reach, the encrypted payload of a
\* secret exists iff its state record exists.
C18_PayloadStatePairing == DOMAIN payload = DOMAIN staterec
\* C19: a rename that is refused because the payload of the new name exists
\* changes neither payloads nor state records; a rename that succeeds moves the
\* payload and the state record of one secret to the new name, so the renamed
\* secret has the value and the mounted flag the old name had, the old name is
\* gone from the store, and no other secret changes.
C19_RenameStep ==
    /\ (resp'.op = "rename" /\ resp'.status = 400) => UNCHANGED <<payload, staterec>>
    /\ (resp'.op = "rename" /\ resp'.status = 200 /\ payload' # payload) =>
           \E k \in DOMAIN payload, k2 \in DOMAIN payload' \ DOMAIN payload :
               /\ k[1] = k2[1]
               /\ DOMAIN payload' = (DOMAIN payload \ {k}) \cup {k2}
               /\ \A x \in DOMAIN payload \ {k} : payload'[x] = payload[x]
               /\ payload'[k2] = payload[k]
               /\ k \notin DOMAIN staterec'
               /\ k2 \in DOMAIN staterec' <=> k \in DOMAIN staterec
               /\ (IF k2 \in DOMAIN staterec' THEN staterec'[k2] ELSE defaultState)
                      = readSecretState(k)

C19_RenameWithoutClobbering == [][C19_RenameStep]_vars
\* C16: once the validation token exists no step replaces or removes it, so the
\* password that validate accepts never changes.
C16_TokenKept == token # {} => token' = token

C16_GateOneWay == [][C16_TokenKept]_vars

\* C17: validate reports "Validation file not found" iff the token file is
\* absent; with a token it reports success iff the token is as it was written
\* and the password is the one it was written with, and "Invalid password"
\* otherwise, a truncated or corrupted token included.
C17_Validate ==
    \A pw \in GatePasswords :
        LET v == validatePassword(pw) IN
        /\ (v.message = "Validation file not found") <=> (token = {})
        /\ token = {} => ~v.success
        /\ token # {} =>
              /\ v.success <=> (~gate.damaged /\ pw = gate.creator)
              /\ ~v.success => v.message = "Invalid password"

\* a token written by a setup request and damaged since: the password it was
\* written with is refused as an invalid password
C17_Witness ==
    /\ token # {}
    /\ gate.damaged
    /\ gate.creator \in GatePasswords
    /\ ~validatePassword(gate.creator).success
    /\ validatePassword(gate.creator).message = "Invalid password"
\* C15: within one deploy request, a step that unlinks a file of a target, and
\* the step that renders the success summary from the counters, happen only when
\* no per-secret task is pending and every service has aggregated the settled
\* results of its tasks.
C15_Step ==
    LET unlinks == \/ \E p \in DOMAIN localFiles : p \notin DOMAIN localFiles'
                   \/ \E p \in DOMAIN sharedFiles : p \notin DOMAIN sharedFiles'
        answers == resp' # resp /\ resp'.op = "deploy" /\ resp'.status = 200
    IN  (unlinks \/ answers) =>
            /\ job.pending = {}
            /\ job.aggregated = job.services
            /\ \A k \in DOMAIN job.results : job.results[k].status \in
                   {"deployed", "updated", "skipped", "rejected"}

C15_JoinBeforeSweep == [][C15_Step]_vars

\* a request over two services has joined with a rejected task among the
\* settled ones, and its sweep has unlinked a file
C15_Witness ==
    /\ job.phase = "sweep"
    /\ job.unlinked # {}
    /\ Cardinality(job.services) = 2
    /\ job.aggregated = job.services
    /\ \E k \in DOMAIN job.results : job.results[k].status = "rejected"

\* C30: every encrypted payload of the store decrypts under the password the
\* validation token accepts.
C30_SingleMasterPassword ==
    \A k \in DOMAIN payload :
        \A pw \in Passwords : validatePassword(pw).success => decrypt(payload[k], pw).ok

\* C21: when a delete-service request has completed, no file of the service is
\* left at either deployment target; and while that deletion is the one store
\* mutation since the last deploy, no secret of the service is served.
C21_DeleteServiceCascades ==
    /\ (resp.op = "delete-service" /\ resp.status = 200) =>
           \A p \in DOMAIN localFiles \cup DOMAIN sharedFiles : p[1] # resp.key[1]
    /\ (resp.op = "fetch" /\ since.n = 1 /\ since.op = "delete-service"
        /\ since.key[1] = resp.key[1]) => resp.status # 200

\* C29: after a deploy that completed under the password of the token, every
\* secret of the store whose mounted flag is true has the decryption of its
\* current payload at the shared target.
C29_SharedCompleteness ==
    JustDeployed =>
        \A k \in Tree :
            (readSecretState(k).mounted /\ decrypt(payload[k], Master).ok) =>
                /\ k \in DOMAIN sharedFiles
                /\ sharedFiles[k] = Text(decrypt(payload[k], Master).pt)

\* the secrets of the store that carry the payload and the state record which
\* were deployed under the name k before the last deploy: k renamed
RenamedFrom(k) ==
    LET md5Path == <<k[1], Md5Name(k[2])>> IN
    {k2 \in (Tree \cap DOMAIN staterec) \ {k} :
        /\ k2[1] = k[1]
        /\ md5Path \in DOMAIN resp.before.local
        /\ resp.before.local[md5Path] = currentHash(k2)}

\* C22: a mounted secret that was deployed, then renamed, then deployed again:
\* the plaintext and the fingerprint of the old name are at neither target and
\* the plaintext of the new name is at both.
C22_EndToEndRename ==
    (/\ JustDeployed
     /\ resp.prior.deployed /\ resp.prior.n = 1 /\ resp.prior.op = "rename") =>
        LET k == resp.prior.key IN
        \A k2 \in RenamedFrom(k) :
            readSecretState(k2).mounted =>
                /\ k \notin Tree
                /\ FilesOf(k) \cap (DOMAIN localFiles \cup DOMAIN sharedFiles) = {}
                /\ decrypt(payload[k2], Master).ok
                /\ k2 \in DOMAIN localFiles
                /\ localFiles[k2] = Text(decrypt(payload[k2], Master).pt)
                /\ k2 \in DOMAIN sharedFiles
                /\ sharedFiles[k2] = Text(decrypt(payload[k2], Master).pt)

\* the lines of the last manifest
Lines == resp.body.lines

\* C27: a manifest answers every mount-label grant dss.<service>.mount.<secret>
\* of the calling container: a wildcard grant with one fetch line per secret of
\* the service in the store tree, a named grant whose secret exists with one
\* fetch line, a grant whose service or secret is not found with a warning line
\* for that label; and every fetch line names a pair that the authorization
\* check accepts for the labels of the container.
C27_ListAvailable ==
    (resp.op = "list" /\ resp.status = 200) =>
        /\ \A s \in ReqServices, n \in ListNames \cup {<<"*">>} :
              LabelKey(s, n) \in resp.requester.labels =>
                  LET secrets == {k[2] : k \in {x \in Tree : x[1] = s}}
                      wanted  == IF n = <<"*">> THEN secrets ELSE {n} \cap secrets
                  IN  /\ \A m \in wanted :
                            \E l \in Lines : l.kind = "fetch" /\ l.rule = LabelKey(s, n)
                                             /\ l.service = s /\ l.secret = m
                      /\ (secrets = {} \/ (n # <<"*">> /\ n \notin secrets)) =>
                            \E l \in Lines :
                                /\ l.kind = "warning"
                                /\ \/ l.rule = LabelKey(s, n)
                                   \/ \E r \in serviceRules({LabelKey(s, n)}) :
                                          l.service = r.serviceName
        /\ \A l \in Lines :
              l.kind = "fetch" => hasPermission(resp.requester.labels, l.service, l.secret)

\* C23: a plaintext that is encrypted and then decrypted with the same password
\* comes back unchanged, and so a secret that is updated with value S under
\* password P and read next with P shows S.
C23_Pure ==
    \A S \in Plaintexts, P \in Passwords, r \in 0..MaxSalts :
        decrypt(encrypt(S, P, r), P).ok /\ decrypt(encrypt(S, P, r), P).pt = S

C23_Step ==
    (/\ resp.op = "update" /\ resp.status = 200
     /\ resp'.op = "read" /\ resp'.key = resp.key /\ resp'.pw = resp.pw) =>
        resp'.status = 200 /\ resp'.value = resp.value

C23_RoundTrip == []C23_Pure /\ [][C23_Step]_vars

\* C24: reading a secret whose payload file is cut short, has a corrupted header
\* or a wrong authentication tag, or reading with a wrong password, fails with
\* one and the same error, and a read that succeeds shows the plaintext that
\* was encrypted, never anything else.
GenericFailure == "Decryption failed - invalid password or corrupted data"

C24_Step ==
    (/\ resp'.op = "read" /\ resp' # resp
     /\ resp'.pw # "" /\ resp'.key \in DOMAIN payload) =>
        LET blob == payload[resp'.key] IN
        IF blob # Truncated /\ blob.key = deriveKey(resp'.pw, blob.salt)
        THEN resp'.status = 200 /\ resp'.value = toString(blob.pt)
        ELSE resp'.status = 500 /\ resp'.message = GenericFailure

C24_FailsClosed == [][C24_Step]_vars

\* a call of checkRateLimit for the address ip is the step
CheckStep(ip) == calls'.n = calls.n + 1 /\ calls'.id = ip

AllowedAt(ip) == IF ip \in DOMAIN calls.allowedAt THEN calls.allowedAt[ip] ELSE <<>>

\* the entry of an address, <<>> when it has none
EntryOf(map, ip) == IF ip \in DOMAIN map THEN map[ip] ELSE <<>>

Blocked(map, ip, t) ==
    ip \in DOMAIN map /\ "blockedUntil" \in DOMAIN map[ip] /\ map[ip].blockedUntil > t

\* C25: while the entry of a client address is not deleted by a successful
\* login, no six calls of checkRateLimit for it that lie within five minutes
\* are all allowed; the call that would be the sixth allowed one within five
\* minutes is refused, and the address is blocked until fifteen minutes after
\* that call.
C25_Window ==
    \A ip \in Clients :
        LET s == AllowedAt(ip) IN
        Len(s) > MAX_ATTEMPTS => s[Len(s)] - s[Len(s) - MAX_ATTEMPTS] > ATTEMPT_WINDOW_MS

C25_Step ==
    \A ip \in Clients :
        LET s == AllowedAt(ip) IN
        (/\ CheckStep(ip)
         /\ Len(s) >= MAX_ATTEMPTS
         /\ now - s[Len(s) - MAX_ATTEMPTS + 1] <= ATTEMPT_WINDOW_MS) =>
            /\ ~calls'.allowed
            /\ Blocked(rateLimitMap', ip, now)
            /\ ~Blocked(rateLimitMap, ip, now) =>
                   rateLimitMap'[ip].blockedUntil = now + BLOCK_DURATION_MS

C25_RateLimit == []C25_Window /\ [][C25_Step]_vars

C25_Witness ==
    \E ip \in Clients :
        /\ calls.id = ip /\ ~calls.allowed
        /\ Len(AllowedAt(ip)) = MAX_ATTEMPTS
        /\ now - AllowedAt(ip)[1] <= ATTEMPT_WINDOW_MS
        /\ ip \in DOMAIN rateLimitMap
        /\ "blockedUntil" \in DOMAIN rateLimitMap[ip]
        /\ rateLimitMap[ip].blockedUntil = now + BLOCK_DURATION_MS

\* C26: from the call of checkRateLimit that blocks a client address until a
\* time blockedUntil, every call for that address before blockedUntil is refused
\* and leaves its entry as it is; the first call at or after blockedUntil is
\* allowed and leaves the entry with one attempt; and a call for one address
\* leaves the entries of all other addresses as they are.
C26_Step ==
    \A ip \in Clients :
        CheckStep(ip) =>
            /\ \A other \in Clients \ {ip} :
                   EntryOf(rateLimitMap', other) = EntryOf(rateLimitMap, other)
            /\ ip \in DOMAIN calls.blocked =>
                   IF now < calls.blocked[ip]
                   THEN /\ ~calls'.allowed
                        /\ EntryOf(rateLimitMap', ip) = EntryOf(rateLimitMap, ip)
                   ELSE Blocked(rateLimitMap, ip, now - BLOCK_DURATION_MS) =>
                            /\ calls'.allowed
                            /\ rateLimitMap'[ip].attempts = 1

C26_BlockSemantics == [][C26_Step]_vars

\* C28: the middleware hands a request on as a running container only when one
\* of the network addresses of that container equals the remote address of the
\* request (with a leading ::ffff: removed); when no running container has the
\* address, or a Docker call fails, the answer is 403 and no route ran.
C28_Step ==
    (resp'.op = "api" /\ resp' # resp) =>
        LET remote == normalizedIp(resp'.ip) IN
        /\ resp'.requester.found =>
               \E c \in containers :
                   c.name = resp'.requester.name /\ remote \in c.networks
        /\ ((\A c \in containers : remote \notin c.networks) \/ resp'.requester.failed) =>
               /\ resp'.status = 403
               /\ resp'.body = Text(<<>>)

C28_ResolveRequester == [][C28_Step]_vars

\* C31: the file that an answered fetch has read lies in the directory of the
\* requested service below the container-local root, is the plaintext of a
\* secret of that service and not another file, and the labels of the
\* container grant that secret.
C31_PathConfinement ==
    (resp.op = "fetch" /\ resp.status = 200) =>
        LET path == secretPath(resp.key[1], resp.key[2]) IN
        /\ path.up = 0
        /\ Len(path.segs) = 2
        /\ path.segs[1] = resp.key[1]
        /\ ~EndsWithMd5(path.segs[2])
        /\ hasPermission(resp.requester.labels, path.segs[1], path.segs[2])

\* C32: once every overlapping deploy request has finished, a secret whose
\* container-local fingerprint file equals its current fingerprint has, as its
\* deployed plaintext, the decryption of its current payload.
C32_NoStaleCurrent ==
    runs = Empty =>
        \A k \in DOMAIN payload \cap DOMAIN staterec :
            LET md5Path == <<k[1], Md5Name(k[2])>> IN
            (md5Path \in DOMAIN localFiles /\ localFiles[md5Path] = currentHash(k)) =>
                /\ k \in DOMAIN localFiles
                /\ localFiles[k] = Text(decrypt(payload[k], Master).pt)

\* C33: after a deploy in which the write of a secret's plaintext to the
\* container-local target failed, the fingerprint file of the secret at that
\* target does not hold the new fingerprint, so that the next deploy does not
\* skip the secret.
C33_FailedWriteKeepsFingerprintStale ==
    (resp.op = "deploy" /\ resp.status = 200) =>
        \A k \in DOMAIN resp.faults :
            LET md5Path == <<k[1], Md5Name(k[2])>> IN
            (resp.faults[k] = "writePlain" /\ resp.results[k].reason = "write") =>
                /\ ~(md5Path \in DOMAIN localFiles /\ localFiles[md5Path] = currentHash(k))
                /\ deployTask(k, Master, "none", localFiles).status # "skipped"

\* C34: a deploy request that carries no password, or a password the token
\* does not validate, or that arrives while there is no token, is answered 401
\* and leaves both deployment targets as they were: no directory, file,
\* wrapper or flag of a target is created, changed or removed.
C34_Step ==
    (/\ resp'.op = "deploy"
     /\ \/ resp'.pw = ""
        \/ token = {}
        \/ gate.damaged
        \/ resp'.pw # gate.creator) =>
        /\ resp'.status = 401
        /\ UNCHANGED targetVars

C34_DeployNeedsPassword == [][C34_Step]_vars

\* a deploy with a password the token does not validate was refused while a
\* secret of the store waited to be deployed next to one deployed before
C34_Witness ==
    /\ resp.op = "deploy"
    /\ resp.status = 401
    /\ resp.pw \notin {"", gate.creator}
    /\ token # {}
    /\ localFiles # Empty
    /\ \E k \in Tree : k \notin DOMAIN localFiles

\* C35: a request of the deploy route or of the delete route that carries a
\* password calls checkRateLimit for the client before the password is tested
\* against the token, and while the client is blocked it is not answered with
\* the outcome of that test (200 for the master password, 401 for another).
C35_Step ==
    (resp'.op \in {"deploy", "delete"} /\ resp'.pw # "") =>
        /\ CheckStep(Client)
        /\ Blocked(rateLimitMap, Client, now) => resp'.status \notin {200, 401}

C35_CheckBehindRateLimit == [][C35_Step]_vars

\* C36: of the first-time-setup requests that are in flight together with
\* different passwords at most one reports success: a request reports success
\* only if no token was there when it wrote its own, and the token it leaves
\* validates exactly its password.
C36_Step ==
    (/\ resp'.op = "setup"
     /\ resp'.body.view = "password_success"
     /\ token' # token) =>
        /\ token = {}
        /\ \A pw \in GatePasswords :
              decrypt(CHOOSE b \in token' : TRUE, pw).ok <=> pw = gate'.creator

C36_OneSetupWins == [][C36_Step]_vars

\* C37: an update that succeeds changes the payload of the secret it names
\* and nothing else: no other payload, no state record, no directory or file
\* of a deployment target.  A toggle that succeeds flips the mounted flag in
\* the state record of the secret it names and changes nothing else: no
\* payload, no other state record, no directory or file of a deployment target.
C37_Step ==
    LET k == resp'.key
        others(f, g) == \A x \in (DOMAIN f \cup DOMAIN g) \ {k} :
                            x \in DOMAIN f /\ x \in DOMAIN g /\ f[x] = g[x]
    IN  /\ (resp'.op = "update" /\ resp'.status = 200) =>
              /\ k \in DOMAIN payload'
              /\ others(payload, payload')
              /\ staterec' = staterec
              /\ UNCHANGED targetVars
        /\ (resp'.op = "toggle" /\ resp'.status = 200) =>
              /\ k \in DOMAIN staterec'
              /\ staterec'[k].mounted = ~readSecretState(k).mounted
              /\ others(staterec, staterec')
              /\ payload' = payload
              /\ UNCHANGED targetVars

C37_FrameOfUpdateAndToggle == [][C37_Step]_vars

\* C38: the services tree reports a secret as deployed with no pending changes
\* iff the per-secret task of the next deploy would skip it; and right after a
\* deploy in which no per-secret task was rejected the tree reports every
\* secret as deployed with no pending changes.
C38_StatusAgreesWithDeploy ==
    LET upToDate(k) == buildServicesTree[k].isDeployed /\ ~buildServicesTree[k].hasChanges
    IN  /\ \A k \in Tree :
              upToDate(k) <=> deployTask(k, Master, "none", localFiles).status = "skipped"
        /\ (/\ resp.op = "deploy"
            /\ resp.status = 200
            /\ \A k \in DOMAIN resp.results : resp.results[k].status # "rejected") =>
              \A k \in Tree : upToDate(k)

\* C39: from the return of stopContainerWatcher until the next explicit call
\* of startContainerWatcher no Docker event stream is open, whatever timers
\* are pending and whatever error events the destroyed request raises; and
\* never is more than one event stream open.
C39_StoppedStaysStopped ==
    /\ watcher.stopped => watcher.open = {}
    /\ Cardinality(watcher.open) <= 1

====
